---- MODULE Spec2Model ----
(***************************************************************************)
(* Order creation and cross-service stock consistency of the e-commerce    *)
(* microservices: the order-creation saga (order-service), the cart store  *)
(* it repairs, the inventory it reads, and the order store it writes.      *)
(***************************************************************************)
EXTENDS Integers, Sequences, FiniteSets, TLC

\* ------------------------------------------------------------------ bounds
MaxLines == 2      \* cart lines per cart
MaxQty == 2        \* largest cart quantity and largest initial stock
MaxRuns == 2       \* saga runs per user
MaxPasses == 2     \* passes of the cart sync job
MaxOutages == 2    \* faults of the broker and of its connections

\* ------------------------------------------------------------------ fixtures
Users == {"u1", "u2"}
Variations == {"v1", "v2", "vGone", "vNoProduct", "vProductGone", "vInactive", "vNoShop"}
\* variations that have a row in the inventory store
ExistingVariations == Variations \ {"vGone"}
\* the product_id column of a variation ("" is a null / falsy value)
VariationProduct ==
  [v \in Variations |->
     CASE v = "v1" -> "p1"
       [] v = "v2" -> "p2"
       [] v = "vProductGone" -> "pGone"
       [] v = "vInactive" -> "pInactive"
       [] v = "vNoShop" -> "pNoShop"
       [] OTHER -> ""]
ExistingProducts == {"p1", "p2", "pInactive", "pNoShop"}
ProductActive == [p \in ExistingProducts |-> p # "pInactive"]
ProductShop == [p \in ExistingProducts |-> CASE p = "p1" -> "s1" [] p = "p2" -> "s2"
                                             [] p = "pInactive" -> "s1" [] OTHER -> ""]
CartId == [u \in Users |-> IF u = "u1" THEN 1 ELSE 2]

\* ------------------------------------------------------------------ state
VARIABLES
  cart,         \* cart store: user -> [exists, items: <<[id, product_variation_id, quantity]>>]
  amount,       \* inventory store: variation -> stock amount
  orders,       \* order store: set of Order rows [id, user_id, is_approved]
  orderItems,   \* order store: set of OrderItem rows
  nextOrderId,  \* primary-key sequence of Order
  nextItemId,   \* primary-key sequence of OrderItem
  published,    \* order.created messages handed to the broker, in order
  saga,         \* user -> local state of the user's create_order_from_shopcart request
  runs,         \* user -> number of saga requests started
  clients,      \* the users that send requests
  queue,        \* broker: the messages waiting in the product_events queue
  consumer,     \* stock consumer instance -> the delivery it is processing
  settled,      \* broker: how each delivery was settled, in order
  statusEvents, \* the order.item.status.updated events published: {[order_item_id, status]}
  reply,        \* the last request an order endpoint answered, with its status code
  sync,         \* the cart sync job: its session, its counters and its last report
  unreachable,  \* the variations whose inventory lookup fails (timeout, 5xx)
  posted,       \* the payloads the order service has posted to the analytics service
  analytics,    \* analytics store: the payloads taken in and the OrderItem rows recorded
  cache,        \* product service: the response cache of GET /products/variations/{id}
  broker,       \* broker: whether it is up, and which of its starts this is
  publisher,    \* order service: the connection of the RabbitMQPublisher singleton
  listener,     \* product service: the loop of RabbitMQConsumer.start_consuming
  signals       \* order service: the post_save receiver of OrderItem and what it published

vars == <<cart, amount, orders, orderItems, nextOrderId, nextItemId, published, saga, runs,
          clients, queue, consumer, settled, statusEvents, reply, sync, unreachable,
          posted, analytics, cache, broker, publisher, listener, signals>>

\* the broker and the two processes' connections to it
bus == <<broker, publisher, listener>>

\* what create_order_from_shopcart never touches; its inventory lookups go
\* through the response cache
outsideSaves == <<consumer, settled, statusEvents, reply, sync, unreachable, posted,
                  analytics, bus>>
outsideValidate == <<outsideSaves, signals>>
outsideOrders == <<outsideValidate, cache>>

\* ------------------------------------------------------------------ helpers
RECURSIVE SumQuantity(_)
SumQuantity(s) == IF s = <<>> THEN 0 ELSE Head(s).quantity + SumQuantity(Tail(s))

RECURSIVE RemoveId(_, _)
RemoveId(s, id) ==
  IF s = <<>> THEN <<>>
  ELSE IF Head(s).id = id THEN RemoveId(Tail(s), id)
       ELSE <<Head(s)>> \o RemoveId(Tail(s), id)

HasId(s, id) == \E k \in 1..Len(s) : s[k].id = id

\* product_client.get_variation: the inventory read endpoint, 404 -> None
get_variation(v, amt) ==
  IF v \in ExistingVariations
    THEN [found |-> TRUE, product_id |-> VariationProduct[v], amount |-> amt[v]]
    ELSE [found |-> FALSE, product_id |-> "", amount |-> 0]

\* product_client.get_product: 404 -> None
get_product(p) ==
  IF p \in ExistingProducts
    THEN [found |-> TRUE, is_active |-> ProductActive[p], shop_id |-> ProductShop[p]]
    ELSE [found |-> FALSE, is_active |-> FALSE, shop_id |-> ""]

\* the response cache before any request, not in use and in use: an entry
\* holds the amount of the variation in the response that was cached
NoCache == [enabled |-> FALSE, held |-> {}, amount |-> [v \in ExistingVariations |-> 0]]
EmptyCache == [NoCache EXCEPT !.enabled = TRUE]

\* GET /products/variations/{id} is answered from the cache when the cache
\* holds an entry of the variation that has not expired (routes.py 344-351)
CacheHit(v, expired) == cache.enabled /\ v \in cache.held /\ ~expired

\* the amount in the response of GET /products/variations/{id}
served(v, expired) == IF CacheHit(v, expired) THEN cache.amount[v] ELSE amount[v]

\* the amounts the endpoint answers with, for every variation
Inventory(expired) == [v \in Variations |-> served(v, expired)]

\* the cache after the request: a response that was computed is kept, a 404
\* is not
Cached(v, expired) ==
  IF ~cache.enabled \/ v \notin ExistingVariations \/ CacheHit(v, expired) THEN cache
  ELSE [cache EXCEPT !.held = @ \cup {v}, !.amount[v] = amount[v]]

\* Cart store, PUT /api/items/{id}: set the quantity of one cart item
CartUpdateItem(c, u, id, q) ==
  [c EXCEPT ![u].items =
     [k \in 1..Len(c[u].items) |->
        IF c[u].items[k].id = id THEN [c[u].items[k] EXCEPT !.quantity = q]
        ELSE c[u].items[k]]]

\* Cart store, DELETE /api/items/{id}
CartDeleteItem(c, u, id) == [c EXCEPT ![u].items = RemoveId(c[u].items, id)]

\* ------------------------------------------------------------------ saga
IdleSaga ==
  [pc |-> "idle", items |-> <<>>, i |-> 0, validated_items |-> <<>>,
   stock_issues |-> <<>>, fixed_items |-> <<>>, order |-> 0, event_items |-> <<>>,
   status |-> 0, items_count |-> 0, total_quantity |-> 0,
   cart_response |-> 0, lookups |-> 0, rejected |-> "", stock_read |-> <<>>,
   stock_held |-> <<>>,
   conflict |-> [issues_found |-> 0, items_fixed |-> 0, details |-> <<>>],
   last |-> [status |-> 0, issues_found |-> 0, items_fixed |-> 0, amount |-> <<>>],
   pre |-> [orders |-> {}, orderItems |-> {}, amount |-> <<>>, cart |-> <<>>,
            published |-> <<>>]]

\* One pass of the validation loop body for a cart line (views_v1.py 123-234):
\* the issue it raises, or "" when the line is accepted.
ValidateIssue_NoZeroCase(item, amt) ==
  LET variation_data == get_variation(item.product_variation_id, amt)
      product_id == variation_data.product_id
      product_data == get_product(product_id)
  IN  IF ~variation_data.found THEN "not_found"
      ELSE IF product_id = "" THEN "invalid_data"
      ELSE IF ~product_data.found THEN "product_not_found"
      ELSE IF ~product_data.is_active THEN "inactive"
      ELSE IF product_data.shop_id = "" THEN "invalid_shop"
      ELSE IF variation_data.amount < item.quantity THEN "insufficient_stock"
      ELSE ""

ValidateIssue_StrictStock(item, amt) ==
  LET variation_data == get_variation(item.product_variation_id, amt)
      product_id == variation_data.product_id
      product_data == get_product(product_id)
  IN  IF ~variation_data.found THEN "not_found"
      ELSE IF product_id = "" THEN "invalid_data"
      ELSE IF ~product_data.found THEN "product_not_found"
      ELSE IF ~product_data.is_active THEN "inactive"
      ELSE IF product_data.shop_id = "" THEN "invalid_shop"
      ELSE IF variation_data.amount = 0 THEN "out_of_stock"
      ELSE IF variation_data.amount <= item.quantity THEN "insufficient_stock"
      ELSE ""

ValidateIssue(item, amt) ==
  LET variation_data == get_variation(item.product_variation_id, amt)
      product_id == variation_data.product_id
      product_data == get_product(product_id)
  IN  IF ~variation_data.found THEN "not_found"
      ELSE IF product_id = "" THEN "invalid_data"
      ELSE IF ~product_data.found THEN "product_not_found"
      ELSE IF ~product_data.is_active THEN "inactive"
      ELSE IF product_data.shop_id = "" THEN "invalid_shop"
      ELSE IF variation_data.amount = 0 THEN "out_of_stock"
      ELSE IF variation_data.amount < item.quantity THEN "insufficient_stock"
      ELSE ""

\* the corrective action of an issue (views_v1.py 143, 155, 166, 178, 189, 206, 223)
IssueAction_AlwaysRemove(issue) == "remove"

IssueAction_OnlyForStock(issue) ==
  IF issue = "insufficient_stock" THEN "update"
  ELSE IF issue = "out_of_stock" THEN "remove"
  ELSE ""

IssueAction(issue) == IF issue = "insufficient_stock" THEN "update" ELSE "remove"

\* The early returns of step 1: 500 when the cart service fails, 404 without a
\* cart, 400 for an empty cart, 0 to go on (views_v1.py 107-115)
FetchStatus_Swapped(response, items) ==
  IF response = 500 THEN 500
  ELSE IF response = 404 THEN 400
  ELSE IF items = <<>> THEN 404
  ELSE 0

FetchStatus(response, items) ==
  IF response = 500 THEN 500
  ELSE IF response = 404 THEN 404
  ELSE IF items = <<>> THEN 400
  ELSE 0

\* Step 1: fetch the cart (views_v1.py 104-117, shopcart_client.py 21-50)
SagaStart(u) ==
  /\ saga[u].pc = "idle"
  /\ u \in clients
  /\ runs[u] < MaxRuns
  /\ runs' = [runs EXCEPT ![u] = @ + 1]
  /\ LET fresh == [IdleSaga EXCEPT !.pre = [orders |-> orders, orderItems |-> orderItems,
                                           amount |-> amount, cart |-> cart,
                                           published |-> published],
                                   !.last = saga[u].last]
     IN \E response \in {200, 404, 500} :
          /\ (response = 200) => cart[u].exists
          /\ (response = 404) => ~cart[u].exists
          /\ LET st == FetchStatus(response, cart[u].items)
             IN saga' = [saga EXCEPT ![u] =
                  IF st # 0
                    THEN [fresh EXCEPT !.pc = "done", !.status = st,
                                       !.cart_response = response]
                    ELSE [fresh EXCEPT !.pc = "validate", !.items = cart[u].items,
                                       !.i = 1, !.cart_response = response]]
  /\ UNCHANGED <<cart, amount, orders, orderItems, nextOrderId, nextItemId, published, clients, queue, outsideOrders>>

\* The all-or-nothing gate after the validation loop (views_v1.py 239, 302)
Gate_AnyValidated(stock_issues, validated_items) ==
  IF validated_items = <<>> THEN "fix" ELSE "create_order"

Gate(stock_issues, validated_items) ==
  IF stock_issues # <<>> THEN "fix" ELSE "create_order"

\* Step 2: validate the next cart line against the inventory (views_v1.py 123-237);
\* stock_read keeps the amount the run was answered, stock_held the amount the
\* inventory store held at that moment
SagaValidate(u) ==
  \E expired \in BOOLEAN :
    LET s == saga[u]
        item == s.items[s.i]
        inventory == Inventory(expired)
        issue == ValidateIssue(item, inventory)
        variation_data == get_variation(item.product_variation_id, inventory)
        product_data == get_product(variation_data.product_id)
        validated == IF issue = "" THEN
                       Append(s.validated_items,
                              [variation_id |-> item.product_variation_id,
                               product_id |-> variation_data.product_id,
                               shop_id |-> product_data.shop_id,
                               quantity |-> item.quantity,
                               available_stock |-> variation_data.amount])
                     ELSE s.validated_items
        issues == IF issue # "" THEN
                    Append(s.stock_issues,
                           [cart_item_id |-> item.id,
                            product_variation_id |-> item.product_variation_id,
                            issue |-> issue, action |-> IssueAction(issue),
                            requested_quantity |-> item.quantity,
                            available_stock |-> variation_data.amount])
                  ELSE s.stock_issues
        last == s.i = Len(s.items)
        stocked == issue \in {"", "out_of_stock", "insufficient_stock"}
    IN  /\ s.pc = "validate"
        /\ saga' = [saga EXCEPT ![u] =
              [s EXCEPT !.validated_items = validated, !.stock_issues = issues,
                        !.i = IF last THEN 1 ELSE s.i + 1,
                        !.lookups = s.lookups + 1,
                        !.stock_read = Append(@, IF stocked THEN variation_data.amount
                                                            ELSE -1),
                        !.stock_held = Append(@, IF stocked
                                                   THEN amount[item.product_variation_id]
                                                   ELSE -1),
                        !.pc = IF ~last THEN "validate" ELSE Gate(issues, validated)]]
        /\ cache' = Cached(item.product_variation_id, expired)
        /\ UNCHANGED <<cart, amount, orders, orderItems, nextOrderId, nextItemId,
                       published, runs, clients, queue, outsideValidate>>

\* the body of the 409 response (views_v1.py 290-298)
ConflictResult_CountsIssues(stock_issues, fixed_items) ==
  [issues_found |-> Len(stock_issues), items_fixed |-> Len(stock_issues),
   details |-> fixed_items]

ConflictResult(stock_issues, fixed_items) ==
  [issues_found |-> Len(stock_issues), items_fixed |-> Len(fixed_items),
   details |-> fixed_items]

\* the entry of fixed_items for a correction the cart service accepted
\* (views_v1.py 255-260, 274-281); cart_item_id is kept next to it to tell the
\* entries of one run apart
FixedItem(issue) ==
  [cart_item_id |-> issue.cart_item_id,
   product_variation_id |-> issue.product_variation_id,
   action |-> IF issue.action = "remove" THEN "removed" ELSE "quantity_updated",
   reason |-> issue.issue]

\* Step 3: apply the next corrective action to the cart store; after the last
\* one return 409 (views_v1.py 239-300, shopcart_client.py 52-101)
SagaFix(u) ==
  LET s == saga[u]
      issue == s.stock_issues[s.i]
      last == s.i = Len(s.stock_issues)
  IN  /\ s.pc = "fix"
      /\ \E success \in BOOLEAN :
           /\ success => HasId(cart[u].items, issue.cart_item_id)
           /\ cart' = IF ~success THEN cart
                      ELSE IF issue.action = "remove"
                        THEN CartDeleteItem(cart, u, issue.cart_item_id)
                        ELSE CartUpdateItem(cart, u, issue.cart_item_id, issue.available_stock)
           /\ LET fixed_items == IF success THEN Append(s.fixed_items, FixedItem(issue))
                                            ELSE s.fixed_items
              IN  saga' = [saga EXCEPT ![u] =
                    [s EXCEPT !.fixed_items = fixed_items,
                              !.i = IF last THEN 0 ELSE s.i + 1,
                              !.pc = IF last THEN "done" ELSE "fix",
                              !.status = IF last THEN 409 ELSE 0,
                              !.conflict = IF last
                                             THEN ConflictResult(s.stock_issues, fixed_items)
                                             ELSE @]]
      /\ UNCHANGED <<amount, orders, orderItems, nextOrderId, nextItemId, published, runs, clients, queue, outsideOrders>>

\* Step 4: create the Order row (views_v1.py 302-311)
SagaCreateOrder(u) ==
  LET s == saga[u]
  IN  /\ s.pc = "create_order"
      /\ \E is_valid \in BOOLEAN :
           IF is_valid
             THEN /\ orders' = orders \cup {[id |-> nextOrderId, user_id |-> u,
                                            is_approved |-> FALSE]}
                  /\ nextOrderId' = nextOrderId + 1
                  /\ saga' = [saga EXCEPT ![u] =
                        [s EXCEPT !.order = nextOrderId, !.pc = "create_items", !.i = 1]]
             ELSE /\ saga' = [saga EXCEPT ![u] = [s EXCEPT !.pc = "done", !.status = 400,
                                                             !.rejected = "order"]]
                  /\ UNCHANGED <<orders, nextOrderId>>
      /\ UNCHANGED <<cart, amount, orderItems, nextItemId, published, runs, clients, queue, outsideOrders>>

\* the receiver of OrderItem's post_save has not been registered, and it has
\* been and has published nothing: published is the module's
\* _published_order_items, events the order.item.created events handed to the
\* broker
NoSignals == [connected |-> FALSE, published |-> {}, events |-> <<>>]
Connected == [NoSignals EXCEPT !.connected = TRUE]

\* instance.order.user_id
OrderUser(os, id) == IF \E o \in os : o.id = id THEN (CHOOSE o \in os : o.id = id).user_id ELSE ""

\* the order.item.created event of an OrderItem (signals.py 21-31)
ItemCreatedEvent(instance, user_id) ==
  [order_item_id |-> instance.id, order_id |-> instance.order,
   shop_id |-> instance.shop_id, product_id |-> instance.product_id,
   product_variation |-> instance.product_variation, quantity |-> instance.quantity,
   price |-> instance.price, status |-> instance.status, user_id |-> user_id]

order_item_post_save_OnEverySave(sig, instance, user_id, created, success) ==
  IF ~sig.connected THEN sig
  ELSE IF instance.shop_id # "" /\ instance.product_id # ""
    THEN IF instance.id \in sig.published THEN sig
         ELSE IF success
           THEN [sig EXCEPT !.published = @ \cup {instance.id},
                            !.events = Append(@, ItemCreatedEvent(instance, user_id))]
         ELSE sig
  ELSE sig

\* order_item_post_save (signals.py 12-41); success is what
\* publish_order_item_created returns
order_item_post_save(sig, instance, user_id, created, success) ==
  IF ~sig.connected THEN sig
  ELSE IF created /\ instance.shop_id # "" /\ instance.product_id # ""
    THEN IF instance.id \in sig.published THEN sig
         ELSE IF success
           THEN [sig EXCEPT !.published = @ \cup {instance.id},
                            !.events = Append(@, ItemCreatedEvent(instance, user_id))]
         ELSE sig
  ELSE sig

\* Order.delete(): the OrderItem rows of the order go with it
OrderDelete(os, id) == {o \in os : o.id # id}
OrderDeleteItems(its, id) == {it \in its : it.order # id}

\* the OrderItem row built from a validated line (views_v1.py 316-324)
OrderItemRow_StockAsQuantity(id, order, item_data) ==
  [id |-> id, order |-> order, product_variation |-> item_data.variation_id,
   product_id |-> item_data.product_id, shop_id |-> item_data.shop_id,
   quantity |-> item_data.available_stock, status |-> 1, price |-> 0]

OrderItemRow(id, order, item_data) ==
  [id |-> id, order |-> order, product_variation |-> item_data.variation_id,
   product_id |-> item_data.product_id, shop_id |-> item_data.shop_id,
   quantity |-> item_data.quantity, status |-> 1, price |-> 0]

\* Step 5, the serializer accepts the item: save it, which sends post_save,
\* and note it for the event (views_v1.py 326-332, 339-342)
ItemAccepted_Decrementing(u) ==
  LET s == saga[u]
      item_data == s.validated_items[s.i]
      last == s.i = Len(s.validated_items)
  IN  /\ orderItems' = orderItems \cup {OrderItemRow(nextItemId, s.order, item_data)}
      /\ nextItemId' = nextItemId + 1
      /\ saga' = [saga EXCEPT ![u] =
            [s EXCEPT !.event_items =
                        Append(@, [product_variation_id |-> item_data.variation_id,
                                   quantity |-> item_data.quantity]),
                      !.i = IF last THEN 0 ELSE s.i + 1,
                      !.pc = IF last THEN "publish" ELSE "create_items"]]
      /\ amount' = [amount EXCEPT ![item_data.variation_id] = @ - item_data.quantity]
      /\ \E success \in BOOLEAN :
           signals' = order_item_post_save(signals,
                                           OrderItemRow(nextItemId, s.order, item_data),
                                           u, TRUE, success)
      /\ UNCHANGED <<orders, cart, nextOrderId, published, runs, clients, queue,
                     outsideSaves, cache>>

ItemAccepted_Prepending(u) ==
  LET s == saga[u]
      item_data == s.validated_items[s.i]
      last == s.i = Len(s.validated_items)
  IN  /\ orderItems' = orderItems \cup {OrderItemRow(nextItemId, s.order, item_data)}
      /\ nextItemId' = nextItemId + 1
      /\ saga' = [saga EXCEPT ![u] =
            [s EXCEPT !.event_items =
                        <<[product_variation_id |-> item_data.variation_id,
                           quantity |-> item_data.quantity]>> \o @,
                      !.i = IF last THEN 0 ELSE s.i + 1,
                      !.pc = IF last THEN "publish" ELSE "create_items"]]
      /\ \E success \in BOOLEAN :
           signals' = order_item_post_save(signals,
                                           OrderItemRow(nextItemId, s.order, item_data),
                                           u, TRUE, success)
      /\ UNCHANGED <<orders, cart, amount, nextOrderId, published, runs, clients, queue,
                     outsideSaves, cache>>

ItemAccepted(u) ==
  LET s == saga[u]
      item_data == s.validated_items[s.i]
      last == s.i = Len(s.validated_items)
  IN  /\ orderItems' = orderItems \cup {OrderItemRow(nextItemId, s.order, item_data)}
      /\ nextItemId' = nextItemId + 1
      /\ saga' = [saga EXCEPT ![u] =
            [s EXCEPT !.event_items =
                        Append(@, [product_variation_id |-> item_data.variation_id,
                                   quantity |-> item_data.quantity]),
                      !.i = IF last THEN 0 ELSE s.i + 1,
                      !.pc = IF last THEN "publish" ELSE "create_items"]]
      /\ \E success \in BOOLEAN :
           signals' = order_item_post_save(signals,
                                           OrderItemRow(nextItemId, s.order, item_data),
                                           u, TRUE, success)
      /\ UNCHANGED <<orders, cart, amount, nextOrderId, published, runs, clients, queue,
                     outsideSaves, cache>>

\* Step 5, the serializer rejects the item: delete the order and return 400
\* (views_v1.py 333-337)
ItemRejected_NoDelete(u) ==
  /\ saga' = [saga EXCEPT ![u] = [@ EXCEPT !.pc = "done", !.status = 400,
                                           !.rejected = "item"]]
  /\ UNCHANGED <<orders, orderItems, nextItemId, cart, amount, nextOrderId, published,
                 runs, clients, queue, outsideOrders>>

ItemRejected(u) ==
  /\ orders' = OrderDelete(orders, saga[u].order)
  /\ orderItems' = OrderDeleteItems(orderItems, saga[u].order)
  /\ saga' = [saga EXCEPT ![u] = [@ EXCEPT !.pc = "done", !.status = 400,
                                           !.rejected = "item"]]
  /\ UNCHANGED <<nextItemId, cart, amount, nextOrderId, published, runs, clients, queue, outsideOrders>>

\* Step 5: create the next OrderItem, or roll the order back (views_v1.py 313-342)
SagaCreateItem(u) ==
  /\ saga[u].pc = "create_items"
  /\ (ItemAccepted(u) \/ ItemRejected(u))

SagaPublish_RollbackOnFailure(u) ==
  LET s == saga[u]
      message == [json_ok |-> TRUE, event_type |-> "order.created", order_id |-> s.order,
                  user_uuid |-> u, cart_id |-> CartId[u], items |-> s.event_items]
  IN  /\ s.pc = "publish"
      /\ \E success \in BOOLEAN :
           /\ published' = IF success THEN Append(published, message) ELSE published
           /\ queue' = IF success THEN Append(queue, message) ELSE queue
           /\ orders' = IF success THEN orders ELSE OrderDelete(orders, s.order)
           /\ orderItems' = IF success THEN orderItems
                                       ELSE OrderDeleteItems(orderItems, s.order)
           /\ saga' = [saga EXCEPT ![u] =
                 [s EXCEPT !.pc = "done", !.status = IF success THEN 201 ELSE 500,
                           !.items_count = Len(s.event_items),
                           !.total_quantity = SumQuantity(s.event_items)]]
      /\ UNCHANGED <<cart, amount, nextOrderId, nextItemId, runs, clients, outsideOrders>>

\* Step 6: publish order.created and return 201 (views_v1.py 344-372,
\* messaging.py 92-128)
SagaPublish(u) ==
  LET s == saga[u]
      message == [json_ok |-> TRUE, event_type |-> "order.created", order_id |-> s.order,
                  user_uuid |-> u, cart_id |-> CartId[u], items |-> s.event_items]
  IN  /\ s.pc = "publish"
      /\ \E success \in BOOLEAN :
           /\ published' = IF success THEN Append(published, message) ELSE published
           /\ queue' = IF success THEN Append(queue, message) ELSE queue
      /\ saga' = [saga EXCEPT ![u] =
            [s EXCEPT !.pc = "done", !.status = 201,
                      !.items_count = Len(s.event_items),
                      !.total_quantity = SumQuantity(s.event_items)]]
      /\ UNCHANGED <<cart, amount, orders, orderItems, nextOrderId, nextItemId, runs,
                     clients, outsideOrders>>

\* The response has been sent; the user may send the request again. What the
\* request answered, and the inventory it started from, stay on record.
SagaReturn(u) ==
  /\ saga[u].pc = "done"
  /\ runs[u] < MaxRuns
  /\ saga' = [saga EXCEPT ![u] =
        [IdleSaga EXCEPT !.last = [status |-> saga[u].status,
                                   issues_found |-> saga[u].conflict.issues_found,
                                   items_fixed |-> saga[u].conflict.items_fixed,
                                   amount |-> saga[u].pre.amount]]]
  /\ UNCHANGED <<cart, amount, orders, orderItems, nextOrderId, nextItemId, published, runs, clients, queue, outsideOrders>>

Start == \E u \in Users : SagaStart(u)
Validate == \E u \in Users : SagaValidate(u)
Fix == \E u \in Users : SagaFix(u)
CreateOrder == \E u \in Users : SagaCreateOrder(u)
CreateItem == \E u \in Users : SagaCreateItem(u)
Publish == \E u \in Users : SagaPublish(u)
Return == \E u \in Users : SagaReturn(u)

SagaStep == Start \/ Validate \/ Fix \/ CreateOrder \/ CreateItem \/ Publish

\* ------------------------------------------------------------------ stock consumer
Consumers == {"c1", "c2"}

IdleConsumer ==
  [pc |-> "idle", message |-> [json_ok |-> TRUE, event_type |-> "", order_id |-> 0,
                               user_uuid |-> "", cart_id |-> 0, items |-> <<>>],
   i |-> 0, loaded |-> {}, value |-> [v \in ExistingVariations |-> 0],
   read |-> [v \in ExistingVariations |-> 0], dirty |-> {},
   updated_count |-> 0, error_count |-> 0, failed |-> FALSE]

\* what the stock consumer never touches
outsideStock == <<cart, orders, orderItems, nextOrderId, nextItemId, published, saga, runs,
                  clients, statusEvents, reply, sync, unreachable, posted, analytics, cache,
                  bus, signals>>

\* basic_ack / basic_nack(requeue=False) of a delivery, as the broker sees it
\* (messaging.py 119-129)
Settlement(message, how) ==
  [order_id |-> message.order_id, how |-> how, requeue |-> FALSE,
   json_ok |-> message.json_ok, event_type |-> message.event_type]

SettleAtOnce_AckBadJson(message) ==
  IF message.event_type # "order.created" THEN "ack"
  ELSE IF message.items = <<>> THEN "ack"
  ELSE ""

\* callback, for a delivery that needs no per-item work (messaging.py 100-131,
\* 35-41): "nack" for a body that is not JSON, "ack" for an event type without a
\* handler and for an order.created event without items, "" to go on
SettleAtOnce(message) ==
  IF ~message.json_ok THEN "nack"
  ELSE IF message.event_type # "order.created" THEN "ack"
  ELSE IF message.items = <<>> THEN "ack"
  ELSE ""

\* callback: take the next delivery from the queue (messaging.py 100-117, 32-46)
Receive(c) ==
  /\ consumer[c].pc = "idle"
  /\ queue # <<>>
  /\ queue' = Tail(queue)
  /\ LET message == Head(queue)
         how == SettleAtOnce(message)
     IN IF how # ""
          THEN /\ settled' = Append(settled, Settlement(message, how))
               /\ consumer' = consumer
          ELSE /\ consumer' = [consumer EXCEPT ![c] =
                                 [IdleConsumer EXCEPT !.pc = "items", !.message = message,
                                                      !.i = 1]]
               /\ settled' = settled
  /\ UNCHANGED <<amount, outsideStock>>

\* the stock check of one line (messaging.py 66-74)
EnoughStock_Always(available, quantity) == TRUE

EnoughStock_OffByOne(available, quantity) == available + 1 >= quantity

EnoughStock(available, quantity) == ~(available < quantity)

\* handle_order_created, one pass of the loop body (messaging.py 48-84): the
\* variation is read from the database the first time the session sees it and
\* from the session afterwards; the decrement stays in the session, which
\* remembers the rows it changed (dirty) and what it first read of each row
ProcessItem(c) ==
  LET s == consumer[c]
      item == s.message.items[s.i]
      variation_id == item.product_variation_id
      quantity == item.quantity
      skip == variation_id = "" \/ quantity <= 0
      found == variation_id \in ExistingVariations
      available == IF variation_id \in s.loaded THEN s.value[variation_id]
                   ELSE amount[variation_id]
      enough == found /\ EnoughStock(available, quantity)
      first == found /\ variation_id \notin s.loaded
      next == [s EXCEPT !.i = s.i + 1,
                        !.pc = IF s.i = Len(s.message.items) THEN "commit" ELSE "items",
                        !.read = IF ~skip /\ first
                                   THEN [@ EXCEPT ![variation_id] = available] ELSE @]
  IN  /\ s.pc = "items"
      /\ consumer' = [consumer EXCEPT ![c] =
            IF skip THEN next
            ELSE IF ~found THEN [next EXCEPT !.error_count = @ + 1]
            ELSE IF ~enough
              THEN [next EXCEPT !.error_count = @ + 1,
                                !.loaded = @ \cup {variation_id},
                                !.value = [@ EXCEPT ![variation_id] = available]]
              ELSE [next EXCEPT !.updated_count = @ + 1,
                                !.loaded = @ \cup {variation_id},
                                !.dirty = @ \cup {variation_id},
                                !.value = [@ EXCEPT ![variation_id] = available - quantity]]]
      /\ UNCHANGED <<amount, queue, settled, outsideStock>>

Commit_OncePerOrder(c) ==
  LET s == consumer[c]
      seen == \E k \in 1..Len(settled) :
                /\ settled[k].order_id = s.message.order_id
                /\ settled[k].event_type = "order.created" /\ settled[k].how = "ack"
  IN  /\ s.pc = "commit"
      /\ amount' = [v \in Variations |->
                      IF v \in s.dirty /\ ~seen THEN s.value[v] ELSE amount[v]]
      /\ settled' = Append(settled, Settlement(s.message, "ack"))
      /\ consumer' = [consumer EXCEPT ![c] = [s EXCEPT !.pc = "idle"]]
      /\ UNCHANGED <<queue, outsideStock>>

Commit_WritesLoaded(c) ==
  LET s == consumer[c]
  IN  /\ s.pc = "commit"
      /\ amount' = [v \in Variations |-> IF v \in s.loaded THEN s.value[v] ELSE amount[v]]
      /\ settled' = Append(settled, Settlement(s.message, "ack"))
      /\ consumer' = [consumer EXCEPT ![c] = [s EXCEPT !.pc = "idle"]]
      /\ UNCHANGED <<queue, outsideStock>>

\* handle_order_created: db.commit() writes the amounts the session changed,
\* then the callback acks the delivery (messaging.py 86-91, 119-120)
Commit(c) ==
  LET s == consumer[c]
  IN  /\ s.pc = "commit"
      /\ amount' = [v \in Variations |-> IF v \in s.dirty THEN s.value[v] ELSE amount[v]]
      /\ settled' = Append(settled, Settlement(s.message, "ack"))
      /\ consumer' = [consumer EXCEPT ![c] = [s EXCEPT !.pc = "idle"]]
      /\ UNCHANGED <<queue, outsideStock>>

Fail_Requeue(c) ==
  LET s == consumer[c]
  IN  /\ s.pc \in {"items", "commit"}
      /\ settled' = Append(settled, [Settlement(s.message, "nack") EXCEPT !.requeue = TRUE])
      /\ queue' = Append(queue, s.message)
      /\ consumer' = [consumer EXCEPT ![c] = [s EXCEPT !.pc = "idle", !.failed = TRUE]]
      /\ UNCHANGED <<amount, outsideStock>>

Fail_KeepsDecrements(c) ==
  LET s == consumer[c]
  IN  /\ s.pc \in {"items", "commit"}
      /\ amount' = [v \in Variations |-> IF v \in s.dirty THEN s.value[v] ELSE amount[v]]
      /\ settled' = Append(settled, Settlement(s.message, "nack"))
      /\ consumer' = [consumer EXCEPT ![c] = [s EXCEPT !.pc = "idle", !.failed = TRUE]]
      /\ UNCHANGED <<queue, outsideStock>>

\* handle_order_created, an exception at a line or at the commit: the session
\* is rolled back and the callback nacks the delivery without requeue
\* (messaging.py 93-98, 121-122)
Fail(c) ==
  LET s == consumer[c]
  IN  /\ s.pc \in {"items", "commit"}
      /\ settled' = Append(settled, Settlement(s.message, "nack"))
      /\ consumer' = [consumer EXCEPT ![c] = [s EXCEPT !.pc = "idle", !.failed = TRUE]]
      /\ UNCHANGED <<amount, queue, outsideStock>>

ConsumerReceive == \E c \in Consumers : Receive(c)
ConsumerItem == \E c \in Consumers : ProcessItem(c)
ConsumerCommit == \E c \in Consumers : Commit(c)
ConsumerFail == \E c \in Consumers : Fail(c)

\* ------------------------------------------------------------------ order items
\* the request an order endpoint answered last, the status code it returned
\* and the number of events it published
Response(op, user, pk, new_status, code) ==
  [op |-> op, user |-> user, pk |-> pk, status |-> new_status, code |-> code, events |-> 0]

NoReply == Response("", "", 0, 0, 0)
\* OrderItem.Status: 1 is processing, 3 is approved
PROCESSING == 1
APPROVED == 3
StatusChoices == {PROCESSING, 2, APPROVED}
\* shop_client.get_user_shop_ids
UserShops == [u \in Users |-> IF u = "u1" THEN {"s1"} ELSE {"s2"}]

\* what the order-item endpoints never touch
outsideItems == <<cart, amount, nextOrderId, nextItemId, published, saga, runs, clients,
                  queue, consumer, settled, sync, unreachable, posted, analytics, cache, bus>>

ItemsOf(its, order) == {it \in its : it.order = order}

\* Order.check_and_approve: is_approved becomes true iff every item of the
\* order is approved
check_and_approve(os, its, order) ==
  {IF o.id = order
     THEN [o EXCEPT !.is_approved = \A it \in ItemsOf(its, order) : it.status = APPROVED]
     ELSE o : o \in os}

\* the ownership check (views_v1.py 407-411)
OwnsShop_Anyone(user_id, shop_id) == TRUE

OwnsShop(user_id, shop_id) == shop_id \in UserShops[user_id]

update_order_item_status_ApproveFirst(user, pk, new_status) ==
  LET found == {it \in orderItems : it.id = pk}
      item == CHOOSE it \in found : TRUE
      saved == (orderItems \ {item}) \cup {[item EXCEPT !.status = new_status]}
  IN  IF found = {} THEN
        /\ reply' = Response("update_order_item_status", user, pk, new_status, 404)
        /\ UNCHANGED <<orders, orderItems, statusEvents, signals>>
      ELSE IF new_status \notin StatusChoices THEN
        /\ reply' = Response("update_order_item_status", user, pk, new_status, 400)
        /\ UNCHANGED <<orders, orderItems, statusEvents, signals>>
      ELSE IF item.shop_id = "" \/ item.product_id = "" THEN
        \* the fallback reads user_id before it is assigned (views_v1.py 395, 407)
        /\ reply' = Response("update_order_item_status", user, pk, new_status, 500)
        /\ UNCHANGED <<orders, orderItems, statusEvents, signals>>
      ELSE IF ~OwnsShop(user, item.shop_id) THEN
        /\ reply' = Response("update_order_item_status", user, pk, new_status, 403)
        /\ UNCHANGED <<orders, orderItems, statusEvents, signals>>
      ELSE
        /\ orderItems' = saved
        /\ \E sent \in BOOLEAN :
             signals' = order_item_post_save(signals, [item EXCEPT !.status = new_status],
                                             OrderUser(orders, item.order), FALSE, sent)
        /\ orders' = check_and_approve(orders, orderItems, item.order)
        /\ \E success \in BOOLEAN :
             /\ statusEvents' = IF success
                                  THEN statusEvents \cup {[order_item_id |-> pk,
                                                           status |-> new_status]}
                                  ELSE statusEvents
             /\ reply' = [Response("update_order_item_status", user, pk, new_status, 200)
                            EXCEPT !.events = IF success THEN 1 ELSE 0]

\* PATCH /order-items/<pk>/status/ (views_v1.py 374-440)
update_order_item_status(user, pk, new_status) ==
  LET found == {it \in orderItems : it.id = pk}
      item == CHOOSE it \in found : TRUE
      saved == (orderItems \ {item}) \cup {[item EXCEPT !.status = new_status]}
  IN  IF found = {} THEN
        /\ reply' = Response("update_order_item_status", user, pk, new_status, 404)
        /\ UNCHANGED <<orders, orderItems, statusEvents, signals>>
      ELSE IF new_status \notin StatusChoices THEN
        /\ reply' = Response("update_order_item_status", user, pk, new_status, 400)
        /\ UNCHANGED <<orders, orderItems, statusEvents, signals>>
      ELSE IF item.shop_id = "" \/ item.product_id = "" THEN
        \* the fallback reads user_id before it is assigned (views_v1.py 395, 407)
        /\ reply' = Response("update_order_item_status", user, pk, new_status, 500)
        /\ UNCHANGED <<orders, orderItems, statusEvents, signals>>
      ELSE IF ~OwnsShop(user, item.shop_id) THEN
        /\ reply' = Response("update_order_item_status", user, pk, new_status, 403)
        /\ UNCHANGED <<orders, orderItems, statusEvents, signals>>
      ELSE
        /\ orderItems' = saved
        /\ \E sent \in BOOLEAN :
             signals' = order_item_post_save(signals, [item EXCEPT !.status = new_status],
                                             OrderUser(orders, item.order), FALSE, sent)
        /\ orders' = check_and_approve(orders, saved, item.order)
        /\ \E success \in BOOLEAN :
             /\ statusEvents' = IF success
                                  THEN statusEvents \cup {[order_item_id |-> pk,
                                                           status |-> new_status]}
                                  ELSE statusEvents
             /\ reply' = [Response("update_order_item_status", user, pk, new_status, 200)
                            EXCEPT !.events = IF success THEN 1 ELSE 0]

\* PATCH /order-items/<pk>/ with a status (views_v1.py 76-92)
orderitems_patch(pk, new_status) ==
  LET found == {it \in orderItems : it.id = pk}
      item == CHOOSE it \in found : TRUE
  IN  IF found = {} THEN
        /\ reply' = Response("orderitems_patch", "", pk, new_status, 404)
        /\ UNCHANGED <<orders, orderItems, statusEvents, signals>>
      ELSE IF new_status \notin StatusChoices THEN
        /\ reply' = Response("orderitems_patch", "", pk, new_status, 400)
        /\ UNCHANGED <<orders, orderItems, statusEvents, signals>>
      ELSE
        /\ orderItems' = (orderItems \ {item}) \cup {[item EXCEPT !.status = new_status]}
        /\ \E sent \in BOOLEAN :
             signals' = order_item_post_save(signals, [item EXCEPT !.status = new_status],
                                             OrderUser(orders, item.order), FALSE, sent)
        /\ reply' = Response("orderitems_patch", "", pk, new_status, 200)
        /\ UNCHANGED <<orders, statusEvents>>

\* DELETE /order-items/<pk>/ (views_v1.py 76-81, 94-96)
orderitems_delete(pk) ==
  LET found == {it \in orderItems : it.id = pk}
  IN  /\ orderItems' = orderItems \ found
      /\ reply' = Response("orderitems_delete", "", pk, 0, IF found = {} THEN 404 ELSE 204)
      /\ UNCHANGED <<orders, statusEvents>>

\* DELETE /orders/<pk>/ (views_v1.py 34-39, 52-54)
orders_delete(pk) ==
  LET found == {o \in orders : o.id = pk}
  IN  /\ orders' = OrderDelete(orders, pk)
      /\ orderItems' = IF found = {} THEN orderItems ELSE OrderDeleteItems(orderItems, pk)
      /\ reply' = Response("orders_delete", "", pk, 0, IF found = {} THEN 404 ELSE 204)
      /\ UNCHANGED statusEvents

\* POST /orders/ (views_v1.py 18-31): an Order of the user, without items
orders_list_create(user) ==
  \E is_valid \in BOOLEAN :
    IF is_valid
      THEN /\ orders' = orders \cup {[id |-> nextOrderId, user_id |-> user,
                                      is_approved |-> FALSE]}
           /\ nextOrderId' = nextOrderId + 1
           /\ reply' = Response("orders_list_create", "", nextOrderId, 0, 201)
      ELSE /\ reply' = Response("orders_list_create", "", 0, 0, 400)
           /\ UNCHANGED <<orders, nextOrderId>>

\* POST /order-items/ (views_v1.py 58-72): an OrderItem of an order, with the
\* product and shop the request names or without them
orderitems_list_create(order, product_id, shop_id) ==
  \E is_valid \in BOOLEAN :
    IF is_valid /\ (\E o \in orders : o.id = order)
      THEN LET instance == [id |-> nextItemId, order |-> order, product_variation |-> "v1",
                            product_id |-> product_id, shop_id |-> shop_id,
                            quantity |-> 1, status |-> 1, price |-> 0]
           IN  /\ orderItems' = orderItems \cup {instance}
               /\ nextItemId' = nextItemId + 1
               /\ \E success \in BOOLEAN :
                    signals' = order_item_post_save(signals, instance,
                                                    OrderUser(orders, order), TRUE, success)
               /\ reply' = Response("orderitems_list_create", "", nextItemId, 0, 201)
      ELSE /\ reply' = Response("orderitems_list_create", "", 0, 0, 400)
           /\ UNCHANGED <<orderItems, nextItemId, signals>>

\* the primary keys and status values the requests carry
RequestPks == {1, 2}
RequestStatuses == StatusChoices \cup {0}

UpdateStatus ==
  /\ \E user \in Users, pk \in RequestPks, st \in RequestStatuses :
       update_order_item_status(user, pk, st)
  /\ UNCHANGED outsideItems

\* the owner of shop s1 approves items
UpdateApproved ==
  /\ \E user \in {"u1"}, pk \in RequestPks : update_order_item_status(user, pk, APPROVED)
  /\ UNCHANGED outsideItems

ItemPatch ==
  /\ \E pk \in RequestPks, st \in RequestStatuses : orderitems_patch(pk, st)
  /\ UNCHANGED outsideItems

ItemDelete ==
  /\ \E pk \in RequestPks : orderitems_delete(pk)
  /\ UNCHANGED <<outsideItems, signals>>

OrdersDelete ==
  /\ \E pk \in {1} : orders_delete(pk)
  /\ UNCHANGED <<outsideItems, signals>>

\* an item is posted to the first order before any other item is saved
ItemCreate ==
  /\ nextItemId = 1
  /\ \E order \in {1}, product_id \in {"p1"}, shop_id \in {"s1", ""} :
       orderitems_list_create(order, product_id, shop_id)
  /\ UNCHANGED <<orders, statusEvents, cart, amount, nextOrderId, published, saga, runs,
                 clients, queue, consumer, settled, sync, unreachable, posted, analytics,
                 cache, bus>>

OrdersCreate ==
  /\ nextOrderId <= MaxRuns
  /\ \E user \in clients : orders_list_create(user)
  /\ UNCHANGED <<orderItems, statusEvents, cart, amount, nextItemId, published, saga, runs,
                 clients, queue, consumer, settled, sync, unreachable, posted, analytics,
                 cache, bus, signals>>

\* ------------------------------------------------------------------ analytics feed
\* nothing taken in: orders and items are the Order and OrderItem rows of the
\* analytics store, down and raised the lookups that failed and the items
\* whose processing raised during the last ingestion
NoAnalytics == [taken |-> 0, orders |-> {}, items |-> {}, down |-> {}, raised |-> {}]

\* what the analytics feed never touches
outsideAnalytics == <<cart, amount, orders, orderItems, nextOrderId, nextItemId, published,
                      saga, runs, clients, queue, consumer, settled, statusEvents, reply,
                      sync, unreachable, cache, bus, signals>>

\* the JSON number of the float n / 100.0, as its shortest decimal text: the
\* whole part and the digits after the point ("2.5", "19.99", "1.0")
FloatText(n) ==
  [whole |-> n \div 100,
   frac |-> IF n % 100 = 0 THEN <<0>>
            ELSE IF n % 10 = 0 THEN <<(n % 100) \div 10>>
            ELSE <<(n % 100) \div 10, n % 10>>]

\* the price of an item in the payload (analytic_client.py 38): the stored
\* price divided by 100, 0.0 for a price that is 0 or missing
PriceOnWire(price) == IF price # 0 THEN FloatText(price) ELSE FloatText(0)

RECURSIVE Pow10(_)
Pow10(n) == IF n = 0 THEN 1 ELSE 10 * Pow10(n - 1)

RECURSIVE DigitsValue(_)
DigitsValue(digits) ==
  IF digits = <<>> THEN 0
  ELSE DigitsValue(SubSeq(digits, 1, Len(digits) - 1)) * 10 + digits[Len(digits)]

ToDecimal_Hundredth(text) ==
  [coefficient |-> text.whole * Pow10(Len(text.frac)) + DigitsValue(text.frac),
   places |-> Len(text.frac) + 2]

\* Decimal(str(price)) (analitic_service.py 71-74): the coefficient and the
\* number of decimal places of the number as it was written
ToDecimal(text) ==
  [coefficient |-> text.whole * Pow10(Len(text.frac)) + DigitsValue(text.frac),
   places |-> Len(text.frac)]

\* send_order: the payload of an order, one entry per approved item
\* (analytic_client.py 27-48)
send_order(order) ==
  [id |-> order.id, user_id |-> order.user_id,
   items |-> {[id |-> it.id, quantity |-> it.quantity,
               product_variation |-> it.product_variation,
               price |-> PriceOnWire(it.price)] :
                it \in {x \in ItemsOf(orderItems, order.id) : x.status = APPROVED}}]

\* get_product_variation_data (product_client.py 21-86): None for an answer
\* other than 200 and for a failed request; with the product embedded in the
\* answer its id and shop, without it the variation's product_id and no shop,
\* None when the answer carries neither
get_product_variation_data(v, embedded, down) ==
  IF v \notin ExistingVariations \/ v \in down
    THEN [found |-> FALSE, shop_id |-> "", product_id |-> ""]
  ELSE IF embedded /\ VariationProduct[v] \in ExistingProducts
    THEN [found |-> TRUE, shop_id |-> ProductShop[VariationProduct[v]],
          product_id |-> VariationProduct[v]]
  ELSE IF VariationProduct[v] # ""
    THEN [found |-> TRUE, shop_id |-> "", product_id |-> VariationProduct[v]]
  ELSE [found |-> FALSE, shop_id |-> "", product_id |-> ""]

\* Order.objects.update_or_create(order_id=...) (analitic_service.py 43-49)
order_update_or_create(os, data) ==
  {o \in os : o.order_id # data.id} \cup {[order_id |-> data.id, user_id |-> data.user_id]}

\* the items of a payload the loop saves (analitic_service.py 55-146)
Saved(data, embedded, down, raising) ==
  {item \in data.items :
     /\ get_product_variation_data(item.product_variation, embedded, down).found
     /\ item.id \notin raising}

process_order_completed_AllOrNothing(rows, data, embedded, down, raising) ==
  LET saved == IF Saved(data, embedded, down, raising) = data.items THEN data.items ELSE {}
  IN  {r \in rows : \A item \in saved : item.id # r.id}
        \cup {[id |-> item.id, order |-> data.id,
                product_variation_id |-> item.product_variation,
                quantity |-> item.quantity, price |-> ToDecimal(item.price),
                shop_id |-> get_product_variation_data(item.product_variation,
                                                       embedded, down).shop_id,
                product_id |-> get_product_variation_data(item.product_variation,
                                                          embedded, down).product_id] :
                  item \in saved}

\* process_order_completed: the rows update_or_create leaves for the items of
\* a payload whose variation the product service returns and whose
\* processing does not raise; the other items are skipped
\* (analitic_service.py 55-146)
process_order_completed(rows, data, embedded, down, raising) ==
  LET saved == Saved(data, embedded, down, raising)
  IN  {r \in rows : \A item \in saved : item.id # r.id}
        \cup {[id |-> item.id, order |-> data.id,
                product_variation_id |-> item.product_variation,
                quantity |-> item.quantity, price |-> ToDecimal(item.price),
                shop_id |-> get_product_variation_data(item.product_variation,
                                                       embedded, down).shop_id,
                product_id |-> get_product_variation_data(item.product_variation,
                                                          embedded, down).product_id] :
                  item \in saved}

\* the order service posts an order to /api/analitic-order-completed/
\* (analytic_client.py 52-55)
AnalyticsSend ==
  /\ Len(posted) < MaxRuns
  /\ analytics.taken = Len(posted)
  /\ \E order \in orders : posted' = Append(posted, send_order(order))
  /\ UNCHANGED <<analytics, outsideAnalytics>>

\* the analytics service takes the payload in
Ingest(embedded, down, raising) ==
  LET data == posted[analytics.taken + 1]
  IN  analytics' = [taken |-> analytics.taken + 1,
                    orders |-> order_update_or_create(analytics.orders, data),
                    items |-> process_order_completed(analytics.items, data,
                                                      embedded, down, raising),
                    down |-> down, raised |-> raising]

AnalyticsProcess ==
  /\ analytics.taken < Len(posted)
  /\ \E embedded \in BOOLEAN : Ingest(embedded, {}, {})
  /\ UNCHANGED <<posted, outsideAnalytics>>

\* the analytics service takes the payload in while lookups at the product
\* service fail or the processing of items raises
AnalyticsProcessFault ==
  /\ analytics.taken < Len(posted)
  /\ \E embedded \in BOOLEAN, down \in SUBSET {"v1"},
        raising \in SUBSET {item.id : item \in posted[analytics.taken + 1].items} :
       /\ down # {} \/ raising # {}
       /\ Ingest(embedded, down, raising)
  /\ UNCHANGED <<posted, outsideAnalytics>>

\* ------------------------------------------------------------------ cart sync job
NoReport ==
  [status |-> "", total_items |-> 0, message |-> "", counted |-> FALSE, updated |-> 0,
   deleted |-> 0, unchanged |-> 0, errors |-> 0]

IdleSync ==
  [pc |-> "idle", session |-> <<>>, i |-> 0, updated_count |-> 0, deleted_count |-> 0,
   unchanged_count |-> 0, error_count |-> 0, passes |-> 0, last |-> NoReport,
   previous |-> NoReport,
   cart_before |-> <<>>, cart_after |-> <<>>, dirty |-> FALSE, carried |-> FALSE,
   quiet |-> FALSE, raised |-> {}]

\* what the cart sync job never touches; its inventory lookups go through the
\* response cache
outsideSyncItem == <<amount, orders, orderItems, nextOrderId, nextItemId, published, saga,
                     runs, clients, queue, consumer, settled, statusEvents, reply, posted,
                     analytics, bus, signals>>
outsideSync == <<outsideSyncItem, cache>>

\* verify_product_exists (tasks.py 16-46): None when the variation is not
\* found or the product service fails, else the amount and the product's
\* is_active, which defaults to True without a product
verify_product_exists(v, amt, down) ==
  IF v \notin ExistingVariations \/ v \in down
    THEN [found |-> FALSE, amount |-> 0, is_active |-> FALSE]
    ELSE [found |-> TRUE, amount |-> amt[v],
          is_active |-> IF VariationProduct[v] \in ExistingProducts
                          THEN ProductActive[VariationProduct[v]] ELSE TRUE]

SyncDecision_KeepShortStock(product_data, quantity) ==
  IF ~product_data.found THEN "delete"
  ELSE IF ~product_data.is_active THEN "delete"
  ELSE IF product_data.amount = 0 THEN "delete"
  ELSE "unchanged"

SyncDecision_UpdateWhenEqual(product_data, quantity) ==
  IF ~product_data.found THEN "delete"
  ELSE IF ~product_data.is_active THEN "delete"
  ELSE IF product_data.amount = 0 THEN "delete"
  ELSE IF product_data.amount <= quantity THEN "update"
  ELSE "unchanged"

\* what the loop body does with one cart item (tasks.py 95-146)
SyncDecision(product_data, quantity) ==
  IF ~product_data.found THEN "delete"
  ELSE IF ~product_data.is_active THEN "delete"
  ELSE IF product_data.amount = 0 THEN "delete"
  ELSE IF product_data.amount < quantity THEN "update"
  ELSE "unchanged"

\* db.query(CartItem).join(ShopCart).all(): every cart item of every cart
RECURSIVE AllCartItems(_, _)
AllCartItems(c, us) ==
  IF us = {} THEN <<>>
  ELSE LET u == CHOOSE x \in us : TRUE
       IN  (IF c[u].exists
              THEN [k \in 1..Len(c[u].items) |->
                      [user |-> u, id |-> c[u].items[k].id,
                       product_variation_id |-> c[u].items[k].product_variation_id,
                       quantity |-> c[u].items[k].quantity, op |-> ""]]
              ELSE <<>>) \o AllCartItems(c, us \ {u})

\* a pass ends: the report, and the bookkeeping of what changed around it.
\* dirty: the world changed since this pass started; carried: it changed
\* between the start of the pass before and the start of this one; quiet:
\* this pass and the one before it saw the same world; raised: the ids of the
\* items whose processing raised in this pass
SyncEnd(report, before, after, dirty, carried) ==
  [IdleSync EXCEPT !.passes = sync.passes + 1, !.last = report, !.previous = sync.last,
                   !.cart_before = before, !.cart_after = after,
                   !.dirty = dirty, !.carried = carried,
                   !.quiet = sync.passes >= 1 /\ ~dirty /\ ~carried,
                   !.raised = {sync.session[k].id : k \in
                                 {j \in 1..Len(sync.session) :
                                    sync.session[j].op = "error"}}]

\* sync_cart_stock: load the cart items; without any, report at once
\* (tasks.py 57-81)
SyncStart ==
  /\ sync.pc = "idle"
  /\ sync.passes < MaxPasses
  /\ LET cart_items == AllCartItems(cart, Users)
     IN  sync' = IF cart_items = <<>>
                   THEN SyncEnd([NoReport EXCEPT !.status = "success",
                                                 !.message = "No items to process"],
                                cart, cart, FALSE, sync.dirty)
                   ELSE [sync EXCEPT !.pc = "items", !.session = cart_items, !.i = 1,
                                     !.cart_before = cart, !.dirty = FALSE,
                                     !.carried = sync.dirty]
  /\ UNCHANGED <<cart, unreachable, outsideSync>>

\* sync_cart_stock, one pass of the loop body (tasks.py 83-146): the change
\* stays in the session
SyncItem ==
  \E expired \in BOOLEAN :
  LET item == sync.session[sync.i]
      product_data == verify_product_exists(item.product_variation_id, Inventory(expired),
                                            unreachable)
      decision == SyncDecision(product_data, item.quantity)
      last == sync.i = Len(sync.session)
  IN  /\ sync.pc = "items"
      /\ cache' = IF item.product_variation_id \in unreachable THEN cache
                  ELSE Cached(item.product_variation_id, expired)
      /\ sync' = [sync EXCEPT
            !.session[sync.i] =
               IF decision = "update"
                 THEN [item EXCEPT !.op = "update", !.quantity = product_data.amount]
                 ELSE [item EXCEPT !.op = IF decision = "delete" THEN "delete" ELSE ""],
            !.deleted_count = IF decision = "delete" THEN @ + 1 ELSE @,
            !.updated_count = IF decision = "update" THEN @ + 1 ELSE @,
            !.unchanged_count = IF decision = "unchanged" THEN @ + 1 ELSE @,
            !.i = IF last THEN 0 ELSE @ + 1,
            !.pc = IF last THEN "commit" ELSE "items"]
      /\ UNCHANGED <<cart, unreachable, outsideSyncItem>>

RECURSIVE Flush_DeletesOnly(_, _)
Flush_DeletesOnly(c, session) ==
  IF session = <<>> THEN c
  ELSE LET item == Head(session)
           rest == Flush_DeletesOnly(c, Tail(session))
       IN  IF item.op = "delete" THEN CartDeleteItem(rest, item.user, item.id) ELSE rest

\* db.commit(): the session's deletes and quantity updates reach the cart store
RECURSIVE Flush(_, _)
Flush(c, session) ==
  IF session = <<>> THEN c
  ELSE LET item == Head(session)
           rest == Flush(c, Tail(session))
       IN  IF item.op = "delete" THEN CartDeleteItem(rest, item.user, item.id)
           ELSE IF item.op = "update"
             THEN CartUpdateItem(rest, item.user, item.id, item.quantity)
           ELSE rest

\* sync_cart_stock: commit and report (tasks.py 153-174)
SyncCommit ==
  /\ sync.pc = "commit"
  /\ cart' = Flush(cart, sync.session)
  /\ sync' = SyncEnd([status |-> "success", total_items |-> Len(sync.session),
                      message |-> "", counted |-> TRUE, updated |-> sync.updated_count,
                      deleted |-> sync.deleted_count,
                      unchanged |-> sync.unchanged_count, errors |-> sync.error_count],
                     sync.cart_before, cart', sync.dirty, sync.carried)
  /\ UNCHANGED <<unreachable, outsideSync>>

SyncItemRaise_Aborts ==
  /\ sync.pc = "items"
  /\ sync' = [sync EXCEPT !.session[sync.i].op = "error", !.error_count = @ + 1,
                          !.i = 0, !.pc = "commit"]
  /\ UNCHANGED <<cart, unreachable, outsideSync>>

SyncItemRaise_Uncounted ==
  /\ sync.pc = "items"
  /\ sync' = [sync EXCEPT !.session[sync.i].op = "error",
                          !.i = IF sync.i = Len(sync.session) THEN 0 ELSE @ + 1,
                          !.pc = IF sync.i = Len(sync.session) THEN "commit" ELSE "items"]
  /\ UNCHANGED <<cart, unreachable, outsideSync>>

\* sync_cart_stock, the loop body raises for one cart item before it changed
\* the item: the item is counted in error_count and the loop goes on
\* (tasks.py 84-94, 148-151)
SyncItemRaise ==
  /\ sync.pc = "items"
  /\ sync' = [sync EXCEPT !.session[sync.i].op = "error", !.error_count = @ + 1,
                          !.i = IF sync.i = Len(sync.session) THEN 0 ELSE @ + 1,
                          !.pc = IF sync.i = Len(sync.session) THEN "commit" ELSE "items"]
  /\ UNCHANGED <<cart, unreachable, outsideSync>>

SyncFail_KeepsChanges ==
  /\ sync.pc = "commit"
  /\ cart' = Flush(cart, sync.session)
  /\ sync' = SyncEnd([NoReport EXCEPT !.status = "error", !.message = "commit failed"],
                     sync.cart_before, cart', sync.dirty, sync.carried)
  /\ UNCHANGED <<unreachable, outsideSync>>

\* sync_cart_stock, the query for the cart items or the commit raises: the
\* session is rolled back and the error is reported (tasks.py 59-65, 154,
\* 176-187)
SyncFail ==
  /\ \/ /\ sync.pc = "idle"
        /\ sync.passes < MaxPasses
        /\ sync' = SyncEnd([NoReport EXCEPT !.status = "error",
                                            !.message = "query failed"],
                           cart, cart, FALSE, sync.dirty)
     \/ /\ sync.pc = "commit"
        /\ sync' = SyncEnd([NoReport EXCEPT !.status = "error",
                                            !.message = "commit failed"],
                           sync.cart_before, cart, sync.dirty, sync.carried)
  /\ UNCHANGED <<cart, unreachable, outsideSync>>

\* the world around the job: stock is sold, the product service comes and
\* goes, a user changes a quantity in the cart
EnvStock ==
  /\ \E v \in {"v1"}, a \in 0..MaxQty :
       /\ a < amount[v]
       /\ amount' = [amount EXCEPT ![v] = a]
  /\ sync' = [sync EXCEPT !.dirty = TRUE]
  /\ UNCHANGED <<cart, unreachable, orders, orderItems, nextOrderId, nextItemId, published,
                 saga, runs, clients, queue, consumer, settled, statusEvents, reply, posted,
                 analytics, cache, bus, signals>>

EnvOutage ==
  /\ \E v \in {"v1"} :
       unreachable' = IF v \in unreachable THEN unreachable \ {v} ELSE unreachable \cup {v}
  /\ sync' = [sync EXCEPT !.dirty = TRUE]
  /\ UNCHANGED <<cart, outsideSync>>

EnvCart ==
  /\ \E u \in {"u2"}, q \in {1, MaxQty} :
       /\ cart[u].items # <<>>
       /\ cart[u].items[1].quantity # q
       /\ cart' = CartUpdateItem(cart, u, cart[u].items[1].id, q)
  /\ sync' = [sync EXCEPT !.dirty = TRUE]
  /\ UNCHANGED <<unreachable, outsideSync>>

\* ------------------------------------------------------------------ event bus
\* what the broker and the connections to it never touch
outsideBus == <<cart, amount, orders, orderItems, nextOrderId, nextItemId, saga, runs,
                clients, consumer, settled, statusEvents, reply, sync, unreachable, posted,
                analytics, cache, signals>>

\* the broker after its first start
FirstStart == [up |-> TRUE, epoch |-> 1, faults |-> 0]

\* a client's connection as the client holds it: state and channel are what
\* is_closed answers ("broken": closed at the broker, not yet found closed by
\* the client), epoch is the start of the broker it was opened in
NoConnection == [state |-> "none", channel |-> "none", epoch |-> 0]

\* the connection is open at the broker as well
Alive(conn) == conn.state = "open" /\ broker.up /\ conn.epoch = broker.epoch

\* the client holds as open a connection or a channel that the broker has
\* closed
Stale(conn) == conn.state = "open" /\ (~Alive(conn) \/ conn.channel = "broken")

\* what is_closed answers for the connection and the channel
View(conn) ==
  [connection |-> IF conn.state = "open" THEN "open" ELSE "closed",
   channel |-> IF conn.channel \in {"open", "broken"} THEN "open" ELSE "closed"]

\* an operation on the connection failed: the client finds it closed
Lost(conn) == [conn EXCEPT !.state = "closed", !.channel = "closed"]

\* RabbitMQPublisher._connect (messaging.py 41-72)
_connect(conn) ==
  IF conn.state = "open" THEN [conn |-> conn, raised |-> FALSE]
  ELSE IF broker.up
    THEN [conn |-> [state |-> "open", channel |-> "open", epoch |-> broker.epoch],
          raised |-> FALSE]
  ELSE [conn |-> NoConnection, raised |-> TRUE]

_ensure_connection_KeepsChannel(conn) ==
  IF conn.state # "open" THEN _connect(conn) ELSE [conn |-> conn, raised |-> FALSE]

\* RabbitMQPublisher._ensure_connection (messaging.py 74-90)
_ensure_connection(conn) ==
  IF conn.state # "open" THEN _connect(conn)
  ELSE IF conn.channel \in {"none", "closed"}
    THEN IF Alive(conn) THEN [conn |-> [conn EXCEPT !.channel = "open"], raised |-> FALSE]
         ELSE [conn |-> Lost(conn), raised |-> TRUE]
  ELSE [conn |-> conn, raised |-> FALSE]

\* self.channel.basic_publish (messaging.py 108-116)
basic_publish(conn) ==
  IF Alive(conn) /\ conn.channel = "open" THEN [conn |-> conn, raised |-> FALSE]
  ELSE IF Alive(conn) THEN [conn |-> [conn EXCEPT !.channel = "closed"], raised |-> TRUE]
  ELSE [conn |-> Lost(conn), raised |-> TRUE]

\* RabbitMQPublisher.publish_order_created (messaging.py 92-128): the
\* connection after the call, whether basic_publish was called and on what,
\* and whether the call returned True
publish_order_created(conn) ==
  LET ensured == _ensure_connection(conn)
      sent == IF ensured.raised THEN ensured ELSE basic_publish(ensured.conn)
  IN  [conn |-> IF sent.raised THEN _connect(sent.conn).conn ELSE sent.conn,
       sent |-> ~ensured.raised,
       sent_on |-> View(ensured.conn),
       ok |-> ~sent.raised]

NoPublish ==
  [called |-> FALSE, sent |-> FALSE, sent_on |-> View(NoConnection), ok |-> FALSE,
   up |-> FALSE, stale |-> FALSE, connected |-> FALSE]

\* the singleton connects when the module is loaded (messaging.py 39, 255)
IdlePublisher ==
  [conn |-> [state |-> "open", channel |-> "open", epoch |-> 1], calls |-> 0,
   last |-> NoPublish]

\* a caller publishes order.created
PublisherPublish ==
  /\ publisher.calls < MaxRuns
  /\ LET result == publish_order_created(publisher.conn)
         message == [json_ok |-> TRUE, event_type |-> "order.created",
                     order_id |-> publisher.calls + 1, user_uuid |-> "u1",
                     cart_id |-> CartId["u1"], items |-> <<>>]
     IN  /\ publisher' = [conn |-> result.conn, calls |-> publisher.calls + 1,
                          last |-> [called |-> TRUE, sent |-> result.sent,
                                    sent_on |-> result.sent_on, ok |-> result.ok,
                                    up |-> broker.up, stale |-> Stale(publisher.conn),
                                    connected |-> Alive(result.conn)]]
         /\ published' = IF result.ok THEN Append(published, message) ELSE published
         /\ queue' = IF result.ok THEN Append(queue, message) ELSE queue
  /\ UNCHANGED <<broker, listener, outsideBus>>

\* the broker goes down: the connections it held are gone, which a client
\* finds out by its next operation on the connection
BrokerDown ==
  /\ broker.up
  /\ broker.faults < MaxOutages
  /\ broker' = [up |-> FALSE, epoch |-> broker.epoch + 1, faults |-> broker.faults + 1]
  /\ UNCHANGED <<publisher, listener, published, queue, outsideBus>>

BrokerUp ==
  /\ ~broker.up
  /\ broker' = [broker EXCEPT !.up = TRUE]
  /\ UNCHANGED <<publisher, listener, published, queue, outsideBus>>

\* the broker closes the publisher's channel and leaves the connection open
ChannelBreak ==
  /\ Alive(publisher.conn) /\ publisher.conn.channel = "open"
  /\ broker.faults < MaxOutages
  /\ broker' = [broker EXCEPT !.faults = @ + 1]
  /\ publisher' = [publisher EXCEPT !.conn.channel = "broken"]
  /\ UNCHANGED <<listener, published, queue, outsideBus>>

\* what the consumer loop declares on a new channel, in this order
\* (messaging.py 140-158)
Durables == <<"exchange", "queue", "binding">>

IdleListener ==
  [pc |-> "connect", conn |-> NoConnection, declared |-> 0, consumed |-> 0,
   interrupted |-> FALSE]

\* an operation of the loop raised: log, sleep five seconds (messaging.py 174-177)
Sleeping(l) == [l EXCEPT !.pc = "sleep", !.conn = Lost(l.conn)]

\* start_consuming: get_connection and connection.channel (messaging.py 136-137)
LoopConnect ==
  /\ listener.pc = "connect"
  /\ listener' = IF broker.up
                   THEN [listener EXCEPT !.pc = "declare", !.declared = 0,
                           !.conn = [state |-> "open", channel |-> "open",
                                     epoch |-> broker.epoch]]
                   ELSE Sleeping(listener)
  /\ UNCHANGED <<broker, publisher, published, queue, outsideBus>>

\* start_consuming: exchange_declare, queue_declare, queue_bind, one at a time
\* (messaging.py 140-158)
LoopDeclare ==
  /\ listener.pc = "declare"
  /\ listener' = IF Alive(listener.conn)
                   THEN [listener EXCEPT
                           !.declared = @ + 1,
                           !.pc = IF listener.declared + 1 = Len(Durables) THEN "consume"
                                  ELSE "declare"]
                   ELSE Sleeping(listener)
  /\ UNCHANGED <<broker, publisher, published, queue, outsideBus>>

\* start_consuming: basic_qos, basic_consume, channel.start_consuming
\* (messaging.py 160-169)
LoopConsume ==
  /\ listener.pc = "consume"
  /\ listener' = IF Alive(listener.conn) THEN [listener EXCEPT !.pc = "consuming"]
                 ELSE Sleeping(listener)
  /\ UNCHANGED <<broker, publisher, published, queue, outsideBus>>

\* channel.start_consuming hands a delivery to the callback
LoopDeliver ==
  /\ listener.pc = "consuming"
  /\ Alive(listener.conn)
  /\ queue # <<>>
  /\ queue' = Tail(queue)
  /\ listener' = [listener EXCEPT !.consumed = @ + 1]
  /\ UNCHANGED <<broker, publisher, published, outsideBus>>

\* channel.start_consuming raises: the connection is gone (messaging.py 169,
\* 174-177)
LoopLost ==
  /\ listener.pc = "consuming"
  /\ ~Alive(listener.conn)
  /\ listener' = Sleeping(listener)
  /\ UNCHANGED <<broker, publisher, published, queue, outsideBus>>

\* channel.start_consuming raises what the callback raised outside its own
\* try (messaging.py 102, 129-131, 174-177)
CallbackRaises ==
  /\ listener.pc = "consuming"
  /\ Alive(listener.conn)
  /\ broker.faults < MaxOutages
  /\ broker' = [broker EXCEPT !.faults = @ + 1]
  /\ listener' = Sleeping(listener)
  /\ UNCHANGED <<publisher, published, queue, outsideBus>>

LoopRetry_GivesUp ==
  /\ listener.pc = "sleep"
  /\ listener' = [listener EXCEPT !.pc = "stopped"]
  /\ UNCHANGED <<broker, publisher, published, queue, outsideBus>>

\* the sleep is over: the next turn of while True (messaging.py 134, 177)
LoopRetry ==
  /\ listener.pc = "sleep"
  /\ listener' = [listener EXCEPT !.pc = "connect"]
  /\ UNCHANGED <<broker, publisher, published, queue, outsideBus>>

\* KeyboardInterrupt (messaging.py 171-173)
LoopInterrupt ==
  /\ listener.pc # "stopped"
  /\ listener' = [listener EXCEPT !.pc = "stopped", !.interrupted = TRUE]
  /\ UNCHANGED <<broker, publisher, published, queue, outsideBus>>

\* no broker fault, the publisher connected, the consumer loop not started
QuietBus == broker = FirstStart /\ publisher = IdlePublisher /\ listener = IdleListener

\* ------------------------------------------------------------------ carts
\* the quantities a cart line of variation v is given: any for the stocked
\* variations, one unit for those that fail before stock is compared
LineQuantities(v) == IF v \in {"v1", "v2"} THEN 1..MaxQty ELSE {1}

\* the carts of at most n lines, a variation at most once per cart, item ids
\* numbered in cart order starting from base
RECURSIVE CartsOf(_, _, _)
CartsOf(n, base, used) ==
  {<<>>} \cup
  (IF n = 0 THEN {}
   ELSE UNION {{<<[id |-> base, product_variation_id |-> v, quantity |-> q]>> \o rest :
                  rest \in CartsOf(n - 1, base + 1, used \cup {v})} :
               <<v, q>> \in {x \in (Variations \ used) \X (1..MaxQty) :
                                x[2] \in LineQuantities(x[1])}})

\* ------------------------------------------------------------------ Spec
\* u1 sends the requests; u1 has no cart, or a cart with any lines.
Init ==
  /\ clients = {"u1"}
  /\ \E items \in CartsOf(MaxLines, 1, {}), exists \in BOOLEAN :
       /\ ~exists => items = <<>>
       /\ cart = [u \in Users |-> IF u = "u1" THEN [exists |-> exists, items |-> items]
                                  ELSE [exists |-> FALSE, items |-> <<>>]]
  /\ \E a1 \in 0..MaxQty, a2 \in 0..MaxQty :
       amount = [v \in Variations |-> IF v = "v1" THEN a1 ELSE IF v = "v2" THEN a2 ELSE 1]
  /\ orders = {}
  /\ orderItems = {}
  /\ nextOrderId = 1
  /\ nextItemId = 1
  /\ published = <<>>
  /\ saga = [u \in Users |-> IdleSaga]
  /\ runs = [u \in Users |-> 0]
  /\ queue = <<>>
  /\ consumer = [c \in Consumers |-> IdleConsumer]
  /\ settled = <<>>
  /\ statusEvents = {}
  /\ reply = NoReply
  /\ sync = IdleSync
  /\ unreachable = {}
  /\ posted = <<>>
  /\ analytics = NoAnalytics
  /\ QuietBus
  /\ signals = NoSignals
  /\ cache = NoCache

Next ==
  \/ Start \/ Validate \/ Fix \/ CreateOrder \/ CreateItem \/ Publish \/ Return
  \/ ConsumerReceive \/ ConsumerItem \/ ConsumerCommit

Spec == Init /\ [][Next]_vars

\* ------------------------------------------------------------------ SpecOrders
\* the saga of u1 next to the plain order endpoints
NextOrders ==
  \/ Start \/ Validate \/ Fix \/ CreateOrder \/ CreateItem \/ Publish \/ Return
  \/ OrdersCreate \/ ItemDelete

SpecOrders == Init /\ [][NextOrders]_vars

\* ------------------------------------------------------------------ SpecRace
\* Both users send one request each; each has a cart of one line of v1, and
\* the two consumer instances take the messages.
RaceStart ==
  /\ clients = Users
  /\ \E q1 \in 1..MaxQty, q2 \in 1..MaxQty :
       cart = [u \in Users |->
                 [exists |-> TRUE,
                  items |-> <<[id |-> CartId[u], product_variation_id |-> "v1",
                               quantity |-> IF u = "u1" THEN q1 ELSE q2]>>]]
  /\ \E a1 \in 0..MaxQty : amount = [v \in Variations |-> IF v = "v1" THEN a1 ELSE 1]
  /\ orders = {}
  /\ orderItems = {}
  /\ nextOrderId = 1
  /\ nextItemId = 1
  /\ published = <<>>
  /\ saga = [u \in Users |-> IdleSaga]
  /\ runs = [u \in Users |-> 0]
  /\ queue = <<>>
  /\ consumer = [c \in Consumers |-> IdleConsumer]
  /\ settled = <<>>
  /\ statusEvents = {}
  /\ reply = NoReply
  /\ sync = IdleSync
  /\ unreachable = {}
  /\ posted = <<>>
  /\ analytics = NoAnalytics
  /\ QuietBus
  /\ signals = NoSignals

InitRace == RaceStart /\ cache = NoCache

NextRace ==
  \/ Start \/ Validate \/ Fix \/ CreateOrder \/ CreateItem \/ Publish
  \/ ConsumerReceive \/ ConsumerItem \/ ConsumerCommit

SpecRace == InitRace /\ [][NextRace]_vars

\* ------------------------------------------------------------------ SpecCache
\* the same two users and consumer instances, with the response cache of the
\* inventory endpoint in use (empty at the start)
InitCache == RaceStart /\ cache = EmptyCache

SpecCache == InitCache /\ [][NextRace]_vars

\* ------------------------------------------------------------------ SpecStock
\* the lines an order.created message may carry: a quantity of a stocked
\* variation, a line of a variation that does not exist, and two malformed lines
StockLines ==
  {[product_variation_id |-> "v1", quantity |-> q] : q \in 0..MaxQty}
    \cup {[product_variation_id |-> v, quantity |-> 1] : v \in {"v2", "vGone", ""}}

RECURSIVE SeqsUpTo(_, _)
SeqsUpTo(S, n) ==
  IF n = 0 THEN {<<>>}
  ELSE LET shorter == SeqsUpTo(S, n - 1)
       IN  shorter \cup {Append(q, x) : q \in shorter, x \in S}

\* the deliveries for one order id: order.created events, an event of another
\* type, and a body that is not JSON
Deliveries(order_id) ==
  {[json_ok |-> TRUE, event_type |-> "order.created", order_id |-> order_id,
    user_uuid |-> "u1", cart_id |-> 1, items |-> items] :
      items \in SeqsUpTo(StockLines, MaxLines)}
    \cup {[json_ok |-> TRUE, event_type |-> "user.created", order_id |-> order_id,
           user_uuid |-> "u1", cart_id |-> 1, items |-> <<>>],
          [json_ok |-> FALSE, event_type |-> "", order_id |-> order_id,
           user_uuid |-> "", cart_id |-> 0, items |-> <<>>]}

\* Two deliveries wait in the queue, the second one a redelivery of the first
\* or a delivery of at most one line; two consumer instances compete for them.
InitStock ==
  /\ \E m1 \in Deliveries(1) :
       \E m2 \in {m \in Deliveries(2) : Len(m.items) <= 1} \cup {m1} : queue = <<m1, m2>>
  /\ \E a1 \in 0..(2 * MaxQty), a2 \in 0..1 :
       amount = [v \in Variations |-> IF v = "v1" THEN a1 ELSE IF v = "v2" THEN a2 ELSE 1]
  /\ consumer = [c \in Consumers |-> IdleConsumer]
  /\ settled = <<>>
  /\ statusEvents = {}
  /\ reply = NoReply
  /\ sync = IdleSync
  /\ unreachable = {}
  /\ posted = <<>>
  /\ analytics = NoAnalytics
  /\ QuietBus
  /\ signals = NoSignals
  /\ cache = NoCache
  /\ cart = [u \in Users |-> [exists |-> FALSE, items |-> <<>>]]
  /\ orders = {}
  /\ orderItems = {}
  /\ nextOrderId = 1
  /\ nextItemId = 1
  /\ published = <<>>
  /\ saga = [u \in Users |-> IdleSaga]
  /\ runs = [u \in Users |-> 0]
  /\ clients = {}

NextStock == ConsumerReceive \/ ConsumerItem \/ ConsumerCommit

SpecStock == InitStock /\ [][NextStock]_vars

\* ------------------------------------------------------------------ SpecStockFault
\* the stock consumer when processing a message can raise an exception
NextStockFault == ConsumerReceive \/ ConsumerItem \/ ConsumerCommit \/ ConsumerFail

SpecStockFault == InitStock /\ [][NextStockFault]_vars

\* ------------------------------------------------------------------ SpecSync
SyncVariations == {"v1", "v2", "vGone", "vInactive"}

SyncRank == [v \in SyncVariations |->
               CASE v = "v1" -> 1 [] v = "v2" -> 2 [] v = "vGone" -> 3 [] OTHER -> 4]

\* the carts of u1 before the job: lines in one order, any quantity of v1,
\* one unit of every other variation
SyncCarts ==
  {c \in CartsOf(MaxLines, 1, Variations \ SyncVariations) :
     /\ \A k \in 1..Len(c) : c[k].product_variation_id # "v1" => c[k].quantity = 1
     /\ \A k \in 1..(Len(c) - 1) :
          SyncRank[c[k].product_variation_id] < SyncRank[c[k + 1].product_variation_id]}

\* u1 has a cart over the stocked, the missing and the inactive variation,
\* u2 has one line of v1; the sync job runs while the world changes.
InitSync ==
  /\ \E items \in SyncCarts :
       cart = [u \in Users |->
                 IF u = "u1" THEN [exists |-> TRUE, items |-> items]
                 ELSE [exists |-> TRUE,
                       items |-> <<[id |-> MaxLines + 1, product_variation_id |-> "v1",
                                    quantity |-> MaxQty]>>]]
  /\ \E a1 \in 0..MaxQty, a2 \in 0..MaxQty :
       amount = [v \in Variations |-> IF v = "v1" THEN a1 ELSE IF v = "v2" THEN a2 ELSE 1]
  /\ sync = IdleSync
  /\ unreachable = {}
  /\ posted = <<>>
  /\ analytics = NoAnalytics
  /\ QuietBus
  /\ signals = NoSignals
  /\ cache = NoCache
  /\ orders = {}
  /\ orderItems = {}
  /\ nextOrderId = 1
  /\ nextItemId = 1
  /\ published = <<>>
  /\ saga = [u \in Users |-> IdleSaga]
  /\ runs = [u \in Users |-> 0]
  /\ clients = {}
  /\ queue = <<>>
  /\ consumer = [c \in Consumers |-> IdleConsumer]
  /\ settled = <<>>
  /\ statusEvents = {}
  /\ reply = NoReply

NextSync == SyncStart \/ SyncItem \/ SyncCommit \/ EnvStock \/ EnvOutage \/ EnvCart

SpecSync == InitSync /\ [][NextSync]_vars

\* celery beat starts the job every five minutes (celery_app.py 14-19) and a
\* started pass runs to its end: the job's steps are taken when they stay enabled
\* of carts of at most one line next to the line of u2
InitSyncFair == InitSync /\ Len(cart["u1"].items) <= 1 /\ amount["v2"] = 1

SpecSyncFair ==
  /\ InitSyncFair /\ [][NextSync]_vars
  /\ WF_vars(SyncStart) /\ WF_vars(SyncItem) /\ WF_vars(SyncCommit)

\* ------------------------------------------------------------------ SpecSyncFault
\* the sync job alone, with the exceptions its two handlers catch: the loop
\* body raises for an item, the query or the commit raises
NextSyncFault == SyncStart \/ SyncItem \/ SyncItemRaise \/ SyncCommit \/ SyncFail

SpecSyncFault == InitSync /\ [][NextSyncFault]_vars

\* ------------------------------------------------------------------ SpecListener
\* the messages of the orders 1..n, without lines
Waiting(n) ==
  [k \in 1..n |-> [json_ok |-> TRUE, event_type |-> "order.created", order_id |-> k,
                   user_uuid |-> "u1", cart_id |-> CartId["u1"], items |-> <<>>]]

\* The consumer loop starts with some messages waiting in its queue, while
\* the broker goes down and comes back.
InitListener ==
  /\ \E n \in 0..MaxRuns : queue = Waiting(n)
  /\ \E items \in {<<>>} : cart = [u \in Users |-> [exists |-> FALSE, items |-> items]]
  /\ amount = [v \in Variations |-> 1]
  /\ orders = {}
  /\ orderItems = {}
  /\ nextOrderId = 1
  /\ nextItemId = 1
  /\ published = <<>>
  /\ saga = [u \in Users |-> IdleSaga]
  /\ runs = [u \in Users |-> 0]
  /\ clients = {}
  /\ consumer = [c \in Consumers |-> IdleConsumer]
  /\ settled = <<>>
  /\ statusEvents = {}
  /\ reply = NoReply
  /\ sync = IdleSync
  /\ unreachable = {}
  /\ posted = <<>>
  /\ analytics = NoAnalytics
  /\ cache = NoCache
  /\ QuietBus
  /\ signals = NoSignals

NextListener ==
  \/ LoopConnect \/ LoopDeclare \/ LoopConsume \/ LoopDeliver \/ LoopLost
  \/ CallbackRaises \/ LoopRetry \/ LoopInterrupt \/ BrokerDown \/ BrokerUp

\* the loop is a running process and takes its next step; the broker comes
\* back after each outage
SpecListener ==
  /\ InitListener /\ [][NextListener]_vars
  /\ WF_vars(LoopConnect) /\ WF_vars(LoopDeclare) /\ WF_vars(LoopConsume)
  /\ WF_vars(LoopDeliver) /\ WF_vars(LoopLost) /\ WF_vars(LoopRetry)
  /\ WF_vars(BrokerUp)

\* ------------------------------------------------------------------ SpecPublisher
\* The publisher is called while the broker goes down and comes back and
\* while the broker closes the publisher's channel.
NextPublisher == PublisherPublish \/ BrokerDown \/ BrokerUp \/ ChannelBreak

SpecPublisher == InitListener /\ [][NextPublisher]_vars

\* ------------------------------------------------------------------ SpecSignals
\* The receiver of post_save is registered. u1 has a cart of a line of v1 and
\* a line of v2, one unit each, and both are in stock; u1 orders, an item is
\* posted to the first order, and the owner of shop s1 approves items.
InitSignals ==
  /\ clients = {"u1"}
  /\ cart = [u \in Users |->
               IF u = "u1"
                 THEN [exists |-> TRUE,
                       items |-> <<[id |-> 1, product_variation_id |-> "v1", quantity |-> 1],
                                   [id |-> 2, product_variation_id |-> "v2", quantity |-> 1]>>]
               ELSE [exists |-> FALSE, items |-> <<>>]]
  /\ amount = [v \in Variations |-> IF v \in {"v1", "v2"} THEN MaxQty ELSE 1]
  /\ orders = {}
  /\ orderItems = {}
  /\ nextOrderId = 1
  /\ nextItemId = 1
  /\ published = <<>>
  /\ saga = [u \in Users |-> IdleSaga]
  /\ runs = [u \in Users |-> 0]
  /\ queue = <<>>
  /\ consumer = [c \in Consumers |-> IdleConsumer]
  /\ settled = <<>>
  /\ statusEvents = {}
  /\ reply = NoReply
  /\ sync = IdleSync
  /\ unreachable = {}
  /\ posted = <<>>
  /\ analytics = NoAnalytics
  /\ QuietBus
  /\ signals = Connected
  /\ cache = NoCache

NextSignals ==
  \/ Start \/ Validate \/ CreateOrder \/ CreateItem \/ Publish \/ Return
  \/ ItemCreate \/ UpdateApproved

SpecSignals == InitSignals /\ [][NextSignals]_vars

\* ------------------------------------------------------------------ SpecStatus
\* the OrderItem rows the saga leaves for an order of n lines: status
\* processing, price 0, any resolved or missing shop and product
SagaItems(n) ==
  {rows \in SUBSET {[id |-> k, order |-> 1, product_variation |-> "v1", product_id |-> p,
                     shop_id |-> sh, quantity |-> 1, status |-> PROCESSING, price |-> 0] :
                       k \in 1..n, p \in {"p1", ""}, sh \in {"s1", "s2", ""}} :
     \A k \in 1..n : Cardinality({r \in rows : r.id = k}) = 1}

\* One order with its items; shop owners and clients then send order-item
\* requests in any order.
InitStatus ==
  /\ orders = {[id |-> 1, user_id |-> "u1", is_approved |-> FALSE]}
  /\ \E n \in RequestPks : orderItems \in SagaItems(n)
  /\ nextOrderId = 2
  /\ nextItemId = Cardinality(RequestPks) + 1
  /\ statusEvents = {}
  /\ reply = NoReply
  /\ sync = IdleSync
  /\ unreachable = {}
  /\ posted = <<>>
  /\ analytics = NoAnalytics
  /\ QuietBus
  /\ signals = NoSignals
  /\ cache = NoCache
  /\ cart = [u \in Users |-> [exists |-> FALSE, items |-> <<>>]]
  /\ amount = [v \in Variations |-> 1]
  /\ published = <<>>
  /\ saga = [u \in Users |-> IdleSaga]
  /\ runs = [u \in Users |-> 0]
  /\ clients = {}
  /\ queue = <<>>
  /\ consumer = [c \in Consumers |-> IdleConsumer]
  /\ settled = <<>>

NextStatus == UpdateStatus \/ ItemPatch \/ ItemDelete \/ OrdersDelete

SpecStatus == InitStatus /\ [][NextStatus]_vars

\* ------------------------------------------------------------------ SpecAnalytics
\* item prices in minor units: none, one unit, one currency unit, tenths and
\* hundredths above it
Prices == {0, 1, 100, 250, 1999}

\* the OrderItem rows of order 1: any price, processing or approved, of a
\* variation the product service knows or does not know
PricedItems(n) ==
  {{[id |-> k, order |-> 1, product_variation |-> f[k][1], product_id |-> "p1",
     shop_id |-> "s1", quantity |-> 1, status |-> f[k][2], price |-> f[k][3]] : k \in 1..n} :
     f \in [1..n -> {"v1", "vGone"} \X {PROCESSING, APPROVED} \X Prices]}

\* One order with priced items; the order service posts it to the analytics
\* service, which records it.
InitAnalytics ==
  /\ orders = {[id |-> 1, user_id |-> "u1", is_approved |-> FALSE]}
  /\ \E n \in 1..MaxLines : orderItems \in PricedItems(n)
  /\ nextOrderId = 2
  /\ nextItemId = MaxLines + 1
  /\ posted = <<>>
  /\ analytics = NoAnalytics
  /\ QuietBus
  /\ signals = NoSignals
  /\ cache = NoCache
  /\ statusEvents = {}
  /\ reply = NoReply
  /\ sync = IdleSync
  /\ unreachable = {}
  /\ cart = [u \in Users |-> [exists |-> FALSE, items |-> <<>>]]
  /\ amount = [v \in Variations |-> 1]
  /\ published = <<>>
  /\ saga = [u \in Users |-> IdleSaga]
  /\ runs = [u \in Users |-> 0]
  /\ clients = {}
  /\ queue = <<>>
  /\ consumer = [c \in Consumers |-> IdleConsumer]
  /\ settled = <<>>

NextAnalytics == AnalyticsSend \/ AnalyticsProcess

SpecAnalytics == InitAnalytics /\ [][NextAnalytics]_vars

\* ------------------------------------------------------------------ SpecAnalyticsFault
\* the same, with lookups that fail and items whose processing raises
NextAnalyticsFault == AnalyticsSend \/ AnalyticsProcess \/ AnalyticsProcessFault

SpecAnalyticsFault == InitAnalytics /\ [][NextAnalyticsFault]_vars

\* ================================================================== claims
\* a finished saga request of user u
Done(u) == saga[u].pc = "done"
\* the cart line with this id, as the cart store holds it now
LinesWithId(u, id) == {k \in 1..Len(cart[u].items) : cart[u].items[k].id = id}
FixedIds(u) == {saga[u].fixed_items[k].cart_item_id : k \in 1..Len(saga[u].fixed_items)}
\* a variation whose variation, active product and shop all resolve
Resolves(v) ==
  /\ v \in ExistingVariations
  /\ VariationProduct[v] \in ExistingProducts
  /\ ProductActive[VariationProduct[v]]
  /\ ProductShop[VariationProduct[v]] # ""
NoOrderCreated(u) ==
  /\ orders = saga[u].pre.orders
  /\ orderItems = saga[u].pre.orderItems
  /\ Cardinality(orders) = Cardinality(saga[u].pre.orders)
  /\ Cardinality(orderItems) = Cardinality(saga[u].pre.orderItems)

\* C1: once a cart line of the run has failed validation, the run creates no
\* Order row and no OrderItem row: from the failed line on and after the run the
\* two tables are what they were before the run, whatever the other lines are
\* and whether or not the cart corrections succeeded.
C1_SagaAtomicity ==
  \A u \in Users : saga[u].stock_issues # <<>> => NoOrderCreated(u)

\* a 409 run with an accepted line, a failed line and a correction that failed
C1_Witness ==
  \E u \in Users :
    /\ Done(u) /\ saga[u].status = 409
    /\ saga[u].validated_items # <<>>
    /\ Len(saga[u].fixed_items) < Len(saga[u].stock_issues)
    /\ NoOrderCreated(u)

\* the run's cart lines all passed validation
AllLinesValidated(u) ==
  /\ saga[u].items # <<>>
  /\ Len(saga[u].validated_items) = Len(saga[u].items)
  /\ saga[u].stock_issues = <<>>

\* the result C5 describes: 201, one new Order of the user, one OrderItem per
\* cart line with the line's variation and quantity, status 1, price 0 and the
\* resolved product and shop, and the two counts of the response
OrderMatchesCart(u) ==
  LET s == saga[u]
      newOrders == orders \ s.pre.orders
      newItems == orderItems \ s.pre.orderItems
  IN  /\ s.status = 201
      /\ newOrders = {[id |-> s.order, user_id |-> u, is_approved |-> FALSE]}
      /\ Cardinality(newItems) = Len(s.items)
      /\ \A it \in newItems : it.order = s.order
      /\ \A k \in 1..Len(s.items) :
           Cardinality({it \in newItems :
                          /\ it.product_variation = s.items[k].product_variation_id
                          /\ it.quantity = s.items[k].quantity
                          /\ it.status = 1 /\ it.price = 0
                          /\ it.product_id = VariationProduct[s.items[k].product_variation_id]
                          /\ it.product_id # ""
                          /\ it.shop_id = ProductShop[it.product_id]
                          /\ it.shop_id # ""}) = 1
      /\ s.items_count = Len(s.items)
      /\ s.total_quantity = SumQuantity(s.items)

\* C5 as claimed: when every line of a non-empty cart passes validation the run
\* returns 201 and leaves the order described above.
C5_AsClaimed ==
  \A u \in Users : (Done(u) /\ AllLinesValidated(u)) => OrderMatchesCart(u)

\* C5 amended: when every line of a non-empty cart passes validation and neither
\* the Order serializer nor an OrderItem serializer rejects its data, the run
\* returns 201 and leaves exactly one new Order of the user with one OrderItem
\* per cart line as described; a rejection ends the run with 400 instead.
C5_OrderCreated ==
  \A u \in Users :
    (Done(u) /\ AllLinesValidated(u)) =>
      IF saga[u].rejected = "" THEN OrderMatchesCart(u) ELSE saga[u].status = 400

\* a 201 run over a cart of two lines
C5_Witness ==
  \E u \in Users :
    /\ Done(u) /\ AllLinesValidated(u) /\ saga[u].rejected = ""
    /\ Len(saga[u].items) = 2
    /\ OrderMatchesCart(u)

\* C6: no step of create_order_from_shopcart changes any variation's amount,
\* whatever the outcome of the run.
C6_SagaLeavesStock == [][(saga' # saga) => (amount' = amount)]_vars

\* a 201 run over a line whose variation had stock before and has the same after
C6_Witness ==
  \E u \in Users :
    /\ Done(u) /\ saga[u].status = 201
    /\ \E k \in 1..Len(saga[u].items) :
         amount[saga[u].items[k].product_variation_id] >= saga[u].items[k].quantity
    /\ amount = saga[u].pre.amount

\* the lines of the run that resolve and for which the run read a stock a with
\* 0 < a < requested quantity
ShortLines(u) ==
  {k \in 1..Len(saga[u].items) :
     LET line == saga[u].items[k]
         a == saga[u].stock_read[k]
     IN  Resolves(line.product_variation_id) /\ 0 < a /\ a < line.quantity}

\* C7 as claimed: after the run every such line is still in the cart with its
\* quantity set to the available stock, the run returned 409 and created no order.
C7_AsClaimed ==
  \A u \in Users : Done(u) =>
    \A k \in ShortLines(u) :
      LET line == saga[u].items[k]
      IN  /\ saga[u].status = 409
          /\ NoOrderCreated(u)
          /\ \E j \in LinesWithId(u, line.id) :
               cart[u].items[j].quantity = saga[u].stock_read[k]

\* C7 amended: for every such line the run returns 409, creates no order and
\* never removes the line; the line's quantity is exactly the available stock
\* when the cart service accepts the update, and is left as it was when the
\* cart service refuses it.
C7_ClampToStock ==
  \A u \in Users : Done(u) =>
    \A k \in ShortLines(u) :
      LET line == saga[u].items[k]
      IN  /\ saga[u].status = 409
          /\ NoOrderCreated(u)
          /\ \E j \in LinesWithId(u, line.id) :
               cart[u].items[j].quantity =
                 IF line.id \in FixedIds(u) THEN saga[u].stock_read[k] ELSE line.quantity

\* a 409 run that clamped a line to the available stock
C7_Witness ==
  \E u \in Users :
    /\ Done(u) /\ saga[u].status = 409
    /\ \E k \in ShortLines(u) :
         /\ saga[u].items[k].id \in FixedIds(u)
         /\ \E j \in LinesWithId(u, saga[u].items[k].id) :
              /\ cart[u].items[j].quantity < saga[u].items[k].quantity
              /\ cart[u].items[j].quantity = saga[u].stock_read[k]
              /\ cart[u].items[j].quantity > 0

\* the lines of the run whose variation is not found, whose product is missing
\* or inactive, whose shop cannot be resolved, or whose stock is 0
DeadLines(u) ==
  {k \in 1..Len(saga[u].items) :
     LET line == saga[u].items[k]
     IN  \/ ~Resolves(line.product_variation_id)
         \/ saga[u].stock_read[k] = 0}

\* C8 as claimed: after the run every such line is gone from the cart, the run
\* returned 409 and created no order.
C8_AsClaimed ==
  \A u \in Users : Done(u) =>
    \A k \in DeadLines(u) :
      /\ saga[u].status = 409
      /\ NoOrderCreated(u)
      /\ LinesWithId(u, saga[u].items[k].id) = {}

\* C8 amended: for every such line the run returns 409 and creates no order;
\* the line is gone from the cart when the cart service accepts the delete, and
\* is left in the cart unchanged when the cart service refuses it.
C8_RemoveDeadLine ==
  \A u \in Users : Done(u) =>
    \A k \in DeadLines(u) :
      LET line == saga[u].items[k]
      IN  /\ saga[u].status = 409
          /\ NoOrderCreated(u)
          /\ IF line.id \in FixedIds(u)
               THEN LinesWithId(u, line.id) = {}
               ELSE \E j \in LinesWithId(u, line.id) : cart[u].items[j] = line

\* a 409 run that removed an out-of-stock line and a line of an inactive product
C8_Witness ==
  \E u \in Users :
    /\ Done(u) /\ saga[u].status = 409
    /\ \E k1 \in DeadLines(u), k2 \in DeadLines(u) :
         /\ saga[u].items[k1].product_variation_id = "vInactive"
         /\ Resolves(saga[u].items[k2].product_variation_id)
         /\ saga[u].items[k1].id \in FixedIds(u)
         /\ saga[u].items[k2].id \in FixedIds(u)
         /\ LinesWithId(u, saga[u].items[k1].id) = {}
         /\ LinesWithId(u, saga[u].items[k2].id) = {}

NoSideEffects(u) ==
  /\ NoOrderCreated(u)
  /\ cart = saga[u].pre.cart
  /\ published = saga[u].pre.published
  /\ saga[u].lookups = 0

\* C9: when the cart service answers that the user has no cart the run returns
\* 404, and when it returns a cart without items the run returns 400; in both
\* cases no Order or OrderItem is created, no cart item is changed, no
\* inventory lookup is made and no event is published.
C9_NoCartNoEffect ==
  \A u \in Users : Done(u) =>
    /\ (saga[u].cart_response = 404) => (saga[u].status = 404 /\ NoSideEffects(u))
    /\ (saga[u].cart_response = 200 /\ saga[u].pre.cart[u].items = <<>>) =>
         (saga[u].status = 400 /\ NoSideEffects(u))

\* a 404 run of a user without a cart
C9_Witness ==
  \E u \in Users :
    /\ Done(u) /\ ~saga[u].pre.cart[u].exists
    /\ saga[u].status = 404 /\ NoSideEffects(u)

C2_AmountNeverNegative == \A v \in Variations : amount[v] >= 0

\* two consumer instances, each holding a decrement of v1 still to be
\* committed, for the two deliveries of one message
C2_Witness ==
  /\ consumer["c1"].pc = "commit" /\ consumer["c2"].pc = "commit"
  /\ consumer["c1"].message = consumer["c2"].message
  /\ "v1" \in consumer["c1"].loaded /\ "v1" \in consumer["c2"].loaded
  /\ consumer["c1"].updated_count > 0 /\ consumer["c2"].updated_count > 0

\* C3: after any sequence of order-item status changes, Order.is_approved of
\* an order with items is true if and only if every OrderItem of the order is
\* in the approved status.
C3_ApprovedIffAllApproved ==
  \A o \in orders :
    ItemsOf(orderItems, o.id) # {} =>
      (o.is_approved <=> \A it \in ItemsOf(orderItems, o.id) : it.status = APPROVED)

\* C4: when sync_cart_stock has run twice in a row and neither the inventory
\* answers nor the carts were changed from outside between the start of the
\* first run and the end of the second, the second run has changed no cart item: it reports updated = 0 and
\* deleted = 0 and counts every remaining item as unchanged (with no item left
\* it reports total_items = 0 without counts).
C4_SecondPassNoChange ==
  (sync.pc = "idle" /\ sync.passes >= 2 /\ sync.quiet) =>
    /\ sync.cart_after = sync.cart_before
    /\ sync.last.status = "success"
    /\ sync.last.updated = 0
    /\ sync.last.deleted = 0
    /\ sync.last.errors = 0
    /\ sync.last.unchanged = Len(AllCartItems(sync.cart_after, Users))
    /\ sync.last.total_items = sync.last.unchanged
    /\ sync.last.counted <=> sync.last.total_items > 0

\* a second pass in a row that found nothing to do, after a first pass that
\* clamped one item and deleted another
C4_Witness ==
  /\ sync.pc = "idle" /\ sync.passes = 2 /\ sync.quiet
  /\ sync.previous.updated > 0 /\ sync.previous.deleted > 0
  /\ sync.last.counted /\ sync.last.unchanged > 0

\* a finished run that created its order and whose publish of order.created
\* failed: nothing was handed to the broker
PublishFailed(u) ==
  /\ Done(u) /\ AllLinesValidated(u) /\ saga[u].rejected = ""
  /\ published = saga[u].pre.published

\* C11: when publishing order.created fails the run still returns 201 and the
\* Order with all its OrderItems remains persisted.
C11_PublishFailureKeepsOrder ==
  \A u \in Users : PublishFailed(u) => OrderMatchesCart(u)

\* a run over two lines whose publish failed
C11_Witness ==
  \E u \in Users :
    /\ PublishFailed(u) /\ Len(saga[u].items) = 2
    /\ saga[u].status = 201
    /\ Cardinality({it \in orderItems : it.order = saga[u].order}) = 2

\* what one message does to the stock a consumer reads, line by line: a line
\* of a variation that is not found or whose stock is less than the quantity
\* changes nothing, any other line takes its quantity off the stock
RECURSIVE StockAfter(_, _)
StockAfter(items, stock) ==
  IF items = <<>> THEN stock
  ELSE LET v == Head(items).product_variation_id
           q == Head(items).quantity
       IN  StockAfter(Tail(items),
                      IF v \in ExistingVariations /\ q > 0 /\ stock[v] >= q
                        THEN [stock EXCEPT ![v] = @ - q] ELSE stock)

\* the stock a consumer instance has read, or would read now, of each variation
StockSeen(c) ==
  [v \in ExistingVariations |->
     IF v \in consumer[c].loaded THEN consumer[c].read[v] ELSE amount[v]]

\* C12: when a consumer instance finishes an order.created message, the lines
\* whose variation is not found or whose stock is less than the quantity have
\* changed no stock, every other line has taken exactly its quantity off the
\* stock the instance read, and the message is acknowledged.
C12_PartialSuccess ==
  [][\A c \in Consumers :
       (consumer[c].pc = "commit" /\ consumer'[c].pc # "commit") =>
         LET seen == StockSeen(c)
             after == StockAfter(consumer[c].message.items, seen)
         IN  /\ \A v \in ExistingVariations :
                  amount'[v] = IF after[v] # seen[v] THEN after[v] ELSE amount[v]
             /\ \A v \in Variations \ ExistingVariations : amount'[v] = amount[v]
             /\ settled' = Append(settled, Settlement(consumer[c].message, "ack"))]_vars

\* an acknowledged message of two lines, one of a variation that is not found
\* and one that was decremented
C12_Witness ==
  \E c \in Consumers :
    /\ consumer[c].pc = "idle"
    /\ consumer[c].updated_count = 1 /\ consumer[c].error_count = 1
    /\ \E k \in 1..Len(consumer[c].message.items) :
         consumer[c].message.items[k].product_variation_id = "vGone"
    /\ \E k \in 1..Len(settled) :
         settled[k].order_id = consumer[c].message.order_id /\ settled[k].how = "ack"
    /\ amount["v1"] < 2 * MaxQty

\* the deliveries the stock consumer has no handler for
Unroutable(x) == x.json_ok /\ x.event_type # "order.created"

\* C13 as claimed: every delivery whose body is not JSON or whose event type
\* has no handler was negatively acknowledged without requeue.
C13_AsClaimed ==
  \A k \in 1..Len(settled) :
    (~settled[k].json_ok \/ Unroutable(settled[k])) =>
      settled[k].how = "nack" /\ ~settled[k].requeue

\* C13 amended: a delivery whose body is not valid JSON is negatively
\* acknowledged without requeue, a delivery whose event type has no handler is
\* acknowledged; neither changes any stock.
C13_BadJsonNackUnknownAck ==
  [][(queue # <<>> /\ queue' = Tail(queue)
        /\ (~Head(queue).json_ok \/ Unroutable(Head(queue)))) =>
       /\ settled' = Append(settled, Settlement(Head(queue),
                                                IF Head(queue).json_ok THEN "ack" ELSE "nack"))
       /\ ~settled'[Len(settled')].requeue
       /\ amount' = amount
       /\ consumer' = consumer]_vars

\* a body that is not JSON was nacked and an event of another type was acked
C13_Witness ==
  /\ \E k \in 1..Len(settled) : ~settled[k].json_ok /\ settled[k].how = "nack"
  /\ \E k \in 1..Len(settled) : Unroutable(settled[k]) /\ settled[k].how = "ack"

\* the step is an update_order_item_status request of a user for an OrderItem
\* that carries its shop and product, with a valid status, and the user's shops
\* do not contain the item's shop
ForbiddenRequest(it) ==
  /\ reply'.op = "update_order_item_status"
  /\ reply'.pk = it.id
  /\ reply'.status \in StatusChoices
  /\ it.shop_id # "" /\ it.product_id # ""
  /\ it.shop_id \notin UserShops[reply'.user]

SyncRule(line) ==
  LET v == line.product_variation_id
      fetched == v \in ExistingVariations /\ v \notin unreachable
      active == VariationProduct[v] \in ExistingProducts => ProductActive[VariationProduct[v]]
  IN  IF ~fetched \/ ~active \/ amount[v] = 0 THEN "delete"
      ELSE IF amount[v] < line.quantity THEN "clamp"
      ELSE "keep"

\* a pass has ended and, since it started, neither stock, reachability nor a
\* cart was changed from outside
CalmPass == sync.pc = "idle" /\ sync.passes >= 1 /\ ~sync.dirty

\* the lines of user u with this id in a cart store c
SyncedLines(c, u, id) == {k \in 1..Len(c[u].items) : c[u].items[k].id = id}

\* C15: one pass of sync_cart_stock deletes every cart item whose variation
\* cannot be fetched, whose product is inactive or whose stock is 0, sets the
\* quantity to the stock when 0 < stock < quantity, and leaves every other
\* item (quantity <= stock) as it was.
C15_SyncRule ==
  CalmPass =>
    \A u \in Users : \A k \in 1..Len(sync.cart_before[u].items) :
      LET line == sync.cart_before[u].items[k]
          now == SyncedLines(sync.cart_after, u, line.id)
          rule == SyncRule(line)
      IN  /\ rule = "delete" => now = {}
          /\ rule = "clamp" =>
               /\ Cardinality(now) = 1
               /\ \A j \in now :
                    sync.cart_after[u].items[j] =
                      [line EXCEPT !.quantity = amount[line.product_variation_id]]
          /\ rule = "keep" =>
               /\ Cardinality(now) = 1
               /\ \A j \in now : sync.cart_after[u].items[j] = line

\* a pass that deleted one item, clamped another and kept one whose quantity
\* equals the stock
C15_Witness ==
  /\ CalmPass
  /\ sync.last.deleted = 1 /\ sync.last.updated = 1 /\ sync.last.unchanged = 1
  /\ \E u \in Users : \E k \in 1..Len(sync.cart_before[u].items) :
       /\ SyncRule(sync.cart_before[u].items[k]) = "keep"
       /\ sync.cart_before[u].items[k].quantity =
            amount[sync.cart_before[u].items[k].product_variation_id]

\* both consumer instances have committed a message that decremented v, and
\* both had passed the stock check on the same amount of v: they ran concurrently
BothDecremented(v) ==
  /\ \A c \in Consumers : consumer[c].pc = "idle" /\ v \in consumer[c].dirty
  /\ consumer["c1"].read[v] = consumer["c2"].read[v]

\* what a committed message took off v in its own session
Taken(c, v) == consumer[c].read[v] - consumer[c].value[v]

\* C16: when two consumer instances concurrently process messages for the same
\* variation and both pass the stock check, no decrement is lost: the amount
\* has decreased by the sum of both quantities.
C16_NoLostDecrement ==
  \A v \in ExistingVariations :
    BothDecremented(v) =>
      amount[v] = consumer["c1"].read[v] - (Taken("c1", v) + Taken("c2", v))

\* instance d has committed a redelivery of the message instance c committed
\* before: d read variation v after c's commit, when the stock still covered
\* what the message takes of v
Redelivered(c, d, v) ==
  /\ c # d
  /\ consumer[c].pc = "idle" /\ consumer[d].pc = "idle"
  /\ Len(settled) = 2 /\ queue = <<>>
  /\ consumer[c].message = consumer[d].message
  /\ v \in consumer[c].dirty /\ v \in consumer[d].loaded
  /\ consumer[d].read[v] = consumer[c].value[v]
  /\ consumer[c].value[v] >= Taken(c, v)

\* C17: processing the same order.created message a second time decrements
\* the stock of each line a second time whenever the stock still covers it:
\* handle_order_created is not idempotent.
C17_RedeliveryDecrementsTwice ==
  \A c \in Consumers, d \in Consumers, v \in ExistingVariations :
    Redelivered(c, d, v) =>
      /\ Taken(d, v) = Taken(c, v)
      /\ amount[v] = consumer[c].read[v] - 2 * Taken(c, v)

\* a message that took two units of v1 was delivered twice and took four
C17_Witness ==
  \E c \in Consumers, d \in Consumers :
    /\ Redelivered(c, d, "v1")
    /\ Taken(c, "v1") = 2
    /\ amount["v1"] = consumer[c].read["v1"] - 4

\* no saga request is under way and one has returned 201
SagaAtRest ==
  /\ \A u \in Users : saga[u].pc \in {"idle", "done"}
  /\ \E u \in Users : Done(u) /\ saga[u].status = 201

\* C18: once a run of create_order_from_shopcart has completed, no Order with
\* zero OrderItems exists.
C18_NoEmptyOrder ==
  SagaAtRest => \A o \in orders : ItemsOf(orderItems, o.id) # {}

\* C19: when the inventory lookup for a cart item times out or the product
\* service is unavailable, the pass leaves the item in the cart with its
\* quantity unchanged.
C19_SkipOnOutage ==
  CalmPass =>
    \A u \in Users : \A k \in 1..Len(sync.cart_before[u].items) :
      LET line == sync.cart_before[u].items[k]
      IN  line.product_variation_id \in unreachable =>
            \E j \in SyncedLines(sync.cart_after, u, line.id) :
              sync.cart_after[u].items[j] = line

\* every cart item is of an existing variation of an active product and its
\* quantity is at least 1 and at most the variation's current stock
WithinStock ==
  \A u \in Users : \A k \in 1..Len(cart[u].items) :
    LET v == cart[u].items[k].product_variation_id
    IN  /\ v \in ExistingVariations
        /\ VariationProduct[v] \in ExistingProducts => ProductActive[VariationProduct[v]]
        /\ 1 <= cart[u].items[k].quantity
        /\ cart[u].items[k].quantity <= amount[v]

\* C20: the sync job keeps being run, every started pass completes, and after
\* a completed pass during which the inventory and the carts were not changed
\* from outside every remaining cart item has 1 <= quantity <= the current
\* stock of an active variation.
C20_ReconciledAfterOnePass ==
  /\ [](CalmPass => WithinStock)
  /\ \A n \in 0..(MaxPasses - 1) :
       (sync.passes = n) ~> (sync.passes > n /\ sync.pc = "idle")

\* a completed pass that clamped an item whose quantity exceeded the stock
C20_Witness ==
  /\ CalmPass /\ WithinStock
  /\ sync.last.updated > 0
  /\ \E u \in Users : \E k \in 1..Len(sync.cart_before[u].items) :
       LET line == sync.cart_before[u].items[k]
       IN  /\ line.product_variation_id = "v1"
           /\ line.quantity > amount["v1"]
           /\ amount["v1"] > 0

\* the correction of an issue of the run has reached the cart store: the line
\* is gone, or it is there with another quantity than before the run
Applied(u, issue) ==
  \A j \in LinesWithId(u, issue.cart_item_id) :
    \A k \in 1..Len(saga[u].pre.cart[u].items) :
      saga[u].pre.cart[u].items[k].id = issue.cart_item_id =>
        cart[u].items[j] # saga[u].pre.cart[u].items[k]

\* the entries of the corrections of these issues that reached the cart store
RECURSIVE AppliedDetails(_, _)
AppliedDetails(u, issues) ==
  IF issues = <<>> THEN <<>>
  ELSE (IF Applied(u, Head(issues)) THEN <<FixedItem(Head(issues))>> ELSE <<>>)
         \o AppliedDetails(u, Tail(issues))

\* a run that ended in 409
Conflict(u) == Done(u) /\ saga[u].status = 409

\* C21 as claimed: the correction of every failed line has reached the cart
\* store, details has one entry per issue found and items_fixed equals
\* issues_found.
C21_AsClaimed ==
  \A u \in Users : Conflict(u) =>
    /\ \A k \in 1..Len(saga[u].stock_issues) : Applied(u, saga[u].stock_issues[k])
    /\ Len(saga[u].conflict.details) = saga[u].conflict.issues_found
    /\ saga[u].conflict.items_fixed = saga[u].conflict.issues_found

\* C21 amended: the 409 result counts every failed line in issues_found and
\* enumerates in details, in cart order, exactly the corrections that reached
\* the cart store; items_fixed is the length of details and equals issues_found
\* exactly when every correction was accepted by the cart service.
C21_ConflictEnumeratesApplied ==
  \A u \in Users : Conflict(u) =>
    LET r == saga[u].conflict
        issues == saga[u].stock_issues
    IN  /\ r.issues_found = Len(issues)
        /\ r.issues_found = Len(saga[u].items) - Len(saga[u].validated_items)
        /\ r.issues_found > 0
        /\ r.details = AppliedDetails(u, issues)
        /\ r.items_fixed = Len(r.details)
        /\ r.items_fixed = r.issues_found <=>
             \A k \in 1..Len(issues) : Applied(u, issues[k])

\* a 409 whose two corrections, a removal and a clamp, both reached the cart
C21_Witness ==
  \E u \in Users :
    /\ Conflict(u)
    /\ saga[u].conflict.issues_found = 2 /\ saga[u].conflict.items_fixed = 2
    /\ saga[u].conflict.details[1].action # saga[u].conflict.details[2].action
    /\ \A k \in 1..2 : Applied(u, saga[u].stock_issues[k])

\* the stored price, in minor units, of the OrderItem an analytics row or a
\* payload entry was made from
StoredPrice(id) == (CHOOSE it \in orderItems : it.id = id).price

\* the decimal d is the price n divided by 100
IsHundredthOf(d, n) == d.coefficient * 100 = n * Pow10(d.places)

\* C22 as claimed: the payload carries each price as the integer number of
\* minor units, and the price analytics records is the order item's price / 100.
C22_AsClaimed ==
  /\ \A k \in 1..Len(posted) : \A item \in posted[k].items :
       LET d == ToDecimal(item.price)
       IN  d.coefficient = StoredPrice(item.id) * Pow10(d.places)
  /\ \A r \in analytics.items : IsHundredthOf(r.price, StoredPrice(r.id))

\* C22 amended: the order service divides an approved item's price by 100 when
\* it builds the payload, the analytics service records the number it receives
\* without dividing again, and the price analytics records is the order item's
\* price / 100, with at most two decimal places.
C22_DividedOnce ==
  /\ \A k \in 1..Len(posted) : \A item \in posted[k].items :
       IsHundredthOf(ToDecimal(item.price), StoredPrice(item.id))
  /\ \A r \in analytics.items :
       /\ IsHundredthOf(r.price, StoredPrice(r.id))
       /\ r.price.places <= 2
       /\ \E k \in 1..analytics.taken : \E item \in posted[k].items :
            item.id = r.id /\ r.price = ToDecimal(item.price)

\* analytics has recorded 19.99 for a price of 1999 and 2.5 for a price of 250
C22_Witness ==
  /\ \E r \in analytics.items :
       StoredPrice(r.id) = 1999 /\ r.price = [coefficient |-> 1999, places |-> 2]
  /\ \E r \in analytics.items :
       StoredPrice(r.id) = 250 /\ r.price = [coefficient |-> 25, places |-> 1]

\* the quantity of the one cart line of the run of user u
Asked(u) == saga[u].items[1].quantity

\* both users' runs read the same stock of v1, passed validation, created
\* their orders and published them, and the two quantities together exceed
\* the stock they read
Oversold ==
  /\ \A u \in Users : Done(u) /\ saga[u].status = 201 /\ Len(saga[u].items) = 1
  /\ Len(published) = 2
  /\ saga["u1"].stock_read[1] = saga["u2"].stock_read[1]
  /\ Asked("u1") + Asked("u2") > saga["u1"].stock_read[1]
  /\ \A u \in Users : \E it \in orderItems :
       it.order = saga[u].order /\ it.product_variation = "v1" /\ it.quantity = Asked(u)

\* both order.created messages have been taken and settled
BothSettled ==
  /\ queue = <<>> /\ Len(settled) = 2
  /\ \A c \in Consumers : consumer[c].pc = "idle"

\* a consumer instance holds a message whose line asks for more of v1 than
\* the instance read
NoLongerFits(c) ==
  /\ Len(consumer[c].message.items) = 1
  /\ consumer[c].message.items[1].product_variation_id = "v1"
  /\ "v1" \in consumer[c].loaded
  /\ consumer[c].read["v1"] < consumer[c].message.items[1].quantity

\* C23: two runs for different users that read the same stock of a variation
\* both pass validation and both create orders although their quantities
\* together exceed that stock; once both messages are settled the stock is
\* the stock the runs read less the quantity of one of the two orders, never
\* less both, and is not negative; and a consumer that finds the quantity of
\* a message above the stock it reads decrements nothing for it and
\* acknowledges it.
C23_OversoldOrderLeftAlone ==
  /\ []((Oversold /\ BothSettled) =>
          /\ amount["v1"] \in {saga["u1"].stock_read[1] - Asked(u) : u \in Users}
          /\ amount["v1"] >= 0
          /\ \A k \in 1..Len(settled) : settled[k].how = "ack")
  /\ [][\A c \in Consumers :
          (consumer[c].pc = "commit" /\ consumer'[c].pc = "idle" /\ NoLongerFits(c)) =>
            /\ consumer[c].dirty = {} /\ consumer[c].updated_count = 0
            /\ amount' = amount
            /\ settled' = Append(settled, Settlement(consumer[c].message, "ack"))]_vars

\* two orders of two units each against a stock of two: the message of the
\* first order took the stock to zero, the message of the second was
\* acknowledged without a decrement
C23_Witness ==
  /\ Oversold /\ BothSettled
  /\ saga["u1"].stock_read[1] = 2 /\ Asked("u1") = 2 /\ Asked("u2") = 2
  /\ amount["v1"] = 0
  /\ \E c \in Consumers :
       /\ NoLongerFits(c) /\ consumer[c].read["v1"] = 0
       /\ consumer[c].dirty = {} /\ consumer[c].error_count = 1

\* the k-th OrderItem of an order, in the order of creation
NthItem(order, k) ==
  CHOOSE it \in ItemsOf(orderItems, order) :
    Cardinality({x \in ItemsOf(orderItems, order) : x.id < it.id}) = k - 1

\* the message is the order.created event of the run of user u: its order and
\* one OrderItem per cart line are persisted, and its items list has one
\* entry per OrderItem, with the variation and quantity of the cart lines in
\* cart order
EventOfRun(m, u) ==
  /\ m.event_type = "order.created"
  /\ m.order_id = saga[u].order /\ m.user_uuid = u /\ m.cart_id = CartId[u]
  /\ \E o \in orders : o.id = m.order_id /\ o.user_id = u
  /\ Cardinality(ItemsOf(orderItems, m.order_id)) = Len(saga[u].items)
  /\ Len(m.items) = Len(saga[u].items)
  /\ \A k \in 1..Len(m.items) :
       /\ DOMAIN m.items[k] = {"product_variation_id", "quantity"}
       /\ m.items[k].product_variation_id = saga[u].items[k].product_variation_id
       /\ m.items[k].quantity = saga[u].items[k].quantity
       /\ NthItem(m.order_id, k).product_variation = m.items[k].product_variation_id
       /\ NthItem(m.order_id, k).quantity = m.items[k].quantity

\* C24: a run publishes order.created at most once, and only with its Order
\* and all its OrderItems persisted; the event's items list has exactly one
\* {product_variation_id, quantity} entry per created OrderItem, in cart
\* order; a run that ends in 404, 400, 409 or with a rolled-back order
\* publishes no order.created event.
C24_PublishedOnceAfterPersist ==
  /\ [](\A u \in Users :
          /\ saga[u].pc \notin {"idle", "done"} => published = saga[u].pre.published
          /\ Done(u) =>
               /\ Len(published) - Len(saga[u].pre.published) \in {0, 1}
               /\ (saga[u].status \in {404, 400, 409} \/ saga[u].rejected # "") =>
                    published = saga[u].pre.published)
  /\ [](\A k \in 1..Len(published), j \in 1..Len(published) :
          published[k].order_id = published[j].order_id => k = j)
  /\ [][published' # published =>
          \E u \in Users :
            /\ saga[u].pc = "publish" /\ saga'[u].status = 201
            /\ published' = Append(published, published'[Len(published')])
            /\ EventOfRun(published'[Len(published')], u)
            /\ UNCHANGED <<orders, orderItems>>]_vars

\* a 201 run over a cart of two lines whose event has been published
C24_Witness ==
  \E u \in Users :
    /\ Done(u) /\ saga[u].status = 201 /\ Len(saga[u].items) = 2
    /\ Len(published) = Len(saga[u].pre.published) + 1
    /\ EventOfRun(published[Len(published)], u)
    /\ published[Len(published)].items[1] # published[Len(published)].items[2]

\* the run of user u is a retry: the user's run before it answered 409 with
\* every correction applied, and the inventory is what it was when that run
\* started
RetryAfterRepair(u) ==
  /\ Done(u)
  /\ saga[u].last.status = 409
  /\ saga[u].last.items_fixed = saga[u].last.issues_found
  /\ saga[u].pre.amount = saga[u].last.amount
  /\ amount = saga[u].last.amount

\* C25 as claimed: the retry does not return 409; it returns 201 if any cart
\* line remains and 400 if the cart became empty.
C25_AsClaimed ==
  \A u \in Users : RetryAfterRepair(u) =>
    /\ saga[u].status # 409
    /\ saga[u].status = IF saga[u].pre.cart[u].items # <<>> THEN 201 ELSE 400

\* C25 amended: the retry finds no stock issue and does not return 409; when
\* the cart service answers, it returns 400 if the cart became empty, and if
\* any cart line remains every line passes validation and it returns 201
\* unless a serializer rejects the order or an item (400).
C25_RetryProgresses ==
  \A u \in Users : RetryAfterRepair(u) =>
    /\ saga[u].status # 409
    /\ saga[u].stock_issues = <<>>
    /\ saga[u].cart_response \in {200, 500}
    /\ saga[u].cart_response = 500 => saga[u].status = 500
    /\ saga[u].cart_response = 200 =>
         IF saga[u].pre.cart[u].items = <<>> THEN saga[u].status = 400
         ELSE /\ AllLinesValidated(u)
              /\ saga[u].status = IF saga[u].rejected = "" THEN 201 ELSE 400

\* a retry that returned 201 after a run that removed one line and clamped
\* another to the stock
C25_Witness ==
  \E u \in Users :
    /\ RetryAfterRepair(u) /\ saga[u].last.issues_found = 2
    /\ saga[u].status = 201
    /\ Len(saga[u].items) = 1
    /\ saga[u].items[1].quantity = amount[saga[u].items[1].product_variation_id]
    /\ saga[u].items[1].quantity < MaxQty

\* the consumer instances that hold a delivery not yet settled
Busy == {c \in Consumers : consumer[c].pc # "idle"}

\* the step settles one delivery: one entry, an ack or a nack, never a requeue
SettlesOne(message) ==
  \E how \in {"ack", "nack"} :
    /\ settled' = Append(settled, Settlement(message, how))
    /\ ~settled'[Len(settled')].requeue

\* C26: every delivery the stock consumer takes is settled exactly once, by
\* ack or by nack with requeue = false; the consumer never puts a message
\* back in the queue, and a delivery whose processing raises an exception is
\* nacked and gone.
C26_SettledOnceNeverRequeued ==
  /\ [](Len(queue) + Cardinality(Busy) + Len(settled) = 2)
  /\ [](\A k \in 1..Len(settled) :
          settled[k].how \in {"ack", "nack"} /\ ~settled[k].requeue)
  /\ [][/\ queue' = queue \/ (queue # <<>> /\ queue' = Tail(queue))
        /\ settled' # settled =>
             \/ queue' # queue /\ consumer' = consumer /\ SettlesOne(Head(queue))
             \/ \E c \in Busy :
                  /\ queue' = queue /\ consumer'[c].pc = "idle"
                  /\ SettlesOne(consumer[c].message)
        /\ \A c \in Busy :
             consumer'[c].pc = "idle" =>
               /\ SettlesOne(consumer[c].message)
               /\ consumer'[c].failed =>
                    settled'[Len(settled')].how = "nack" /\ queue' = queue]_vars

\* both deliveries are settled: one whose processing raised an exception was
\* nacked, and the queue is empty
C26_Witness ==
  /\ queue = <<>> /\ Busy = {} /\ Len(settled) = 2
  /\ \E c \in Consumers :
       /\ consumer[c].failed
       /\ \E k \in 1..Len(settled) :
            /\ settled[k].how = "nack" /\ settled[k].json_ok
            /\ settled[k].order_id = consumer[c].message.order_id
  /\ \E k \in 1..Len(settled) : settled[k].how = "ack"

\* the step is the end of a message of instance c by an exception
FailsNow(c) == c \in Busy /\ consumer'[c].pc = "idle" /\ consumer'[c].failed

\* the step is the commit of a message of instance c after its last line
CommitsNow(c) ==
  /\ consumer[c].pc = "commit" /\ consumer'[c].pc = "idle" /\ ~consumer'[c].failed
  /\ consumer[c].i = Len(consumer[c].message.items) + 1

\* C27: the stock decrements of one order.created message reach the inventory
\* together, in one commit after the last line; when an exception is raised
\* while a line is processed or at the commit, nothing the message had
\* decremented for earlier lines reaches the inventory and the message is
\* nacked.
C27_AllOrNothingPerMessage ==
  [][/\ \A c \in Consumers :
          FailsNow(c) =>
            /\ amount' = amount
            /\ settled' = Append(settled, Settlement(consumer[c].message, "nack"))
     /\ amount' # amount =>
          \E c \in Consumers :
            /\ CommitsNow(c)
            /\ \A v \in Variations :
                 amount'[v] = IF v \in consumer[c].dirty THEN consumer[c].value[v]
                              ELSE amount[v]
            /\ settled' = Append(settled, Settlement(consumer[c].message, "ack"))]_vars

\* a message of two lines failed at its second line after its first line had
\* taken stock of v1 in the session: the inventory still holds what was read
C27_Witness ==
  \E c \in Consumers :
    /\ consumer[c].pc = "idle" /\ consumer[c].failed
    /\ Len(consumer[c].message.items) = 2 /\ consumer[c].i = 2
    /\ consumer[c].dirty = {"v1"}
    /\ consumer[c].value["v1"] < consumer[c].read["v1"]
    /\ amount["v1"] = consumer[c].read["v1"]
    /\ settled # <<>> /\ settled[Len(settled)] = Settlement(consumer[c].message, "nack")

\* the OrderItem a request names, as it is stored before the request
Named(pk) == {it \in orderItems : it.id = pk}

\* C28: a successful update_order_item_status stores the new status, leaves
\* the parent order's is_approved recomputed over the stored statuses and
\* publishes one order.item.status.updated event; when that publish fails
\* the status change and the recomputed approval remain and the answer is
\* still 200. A request for an OrderItem with a status that is not a valid
\* status value is answered 400 and changes nothing.
C28_PersistApprovePublish ==
  [][reply'.op = "update_order_item_status" =>
       \A it \in Named(reply'.pk) :
         /\ reply'.code = 200 =>
              /\ reply'.status \in StatusChoices
              /\ orderItems' = (orderItems \ {it}) \cup {[it EXCEPT !.status = reply'.status]}
              /\ \A o \in orders' :
                   o.id = it.order =>
                     (o.is_approved <=>
                        \A x \in ItemsOf(orderItems', it.order) : x.status = APPROVED)
              /\ {[id |-> o.id, user_id |-> o.user_id] : o \in orders'} =
                   {[id |-> o.id, user_id |-> o.user_id] : o \in orders}
              /\ {o \in orders' : o.id # it.order} = {o \in orders : o.id # it.order}
              /\ reply'.events \in {0, 1}
              /\ statusEvents' =
                   IF reply'.events = 1
                     THEN statusEvents \cup {[order_item_id |-> it.id, status |-> reply'.status]}
                     ELSE statusEvents
         /\ reply'.status \notin StatusChoices =>
              /\ reply'.code = 400 /\ reply'.events = 0
              /\ UNCHANGED <<orders, orderItems, statusEvents>>]_vars

\* a 200 answer whose publish failed: the last item of the order is stored as
\* approved and the order is approved
C28_Witness ==
  /\ reply.op = "update_order_item_status" /\ reply.code = 200 /\ reply.events = 0
  /\ reply.status = APPROVED
  /\ \E it \in orderItems :
       /\ it.id = reply.pk /\ it.status = APPROVED
       /\ Cardinality(ItemsOf(orderItems, it.order)) = 2
       /\ \E o \in orders : o.id = it.order /\ o.is_approved
       /\ [order_item_id |-> it.id, status |-> APPROVED] \notin statusEvents

\* the product_id and shop_id the fallback lookups give for an OrderItem
\* ("" when a lookup finds nothing)
DerivedProduct(it) ==
  IF it.product_id # "" THEN it.product_id
  ELSE get_variation(it.product_variation, amount).product_id
DerivedShop(it) ==
  IF it.shop_id # "" THEN it.shop_id
  ELSE IF DerivedProduct(it) # "" THEN get_product(DerivedProduct(it)).shop_id
  ELSE ""

\* C29: a request with a valid status for an OrderItem whose stored shop_id or
\* product_id is missing is decided on the derived shop_id: 404 with the
\* status unchanged when it cannot be resolved, the ownership check
\* otherwise, and a successful transition stores the derived ids, so an item
\* that still lacks an id after such a request was answered 404 or 403.
C29_FallbackDerives ==
  \A it \in orderItems :
    (/\ reply.op = "update_order_item_status" /\ reply.pk = it.id
     /\ reply.status \in StatusChoices
     /\ (it.shop_id = "" \/ it.product_id = "")) =>
      /\ reply.code \in {403, 404}
      /\ reply.code = 404 <=> DerivedShop(it) = ""
      /\ reply.code = 403 => DerivedShop(it) \notin UserShops[reply.user]

CountedPass == CalmPass /\ sync.last.status = "success" /\ sync.last.counted

\* the cart lines the pass started with
LinesBefore ==
  {<<u, k>> \in Users \X (1..(MaxLines + 1)) : k <= Len(sync.cart_before[u].items)}

LineBefore(x) == sync.cart_before[x[1]].items[x[2]]

\* the cart line is in the cart store after the pass as it was before it
Untouched(x) ==
  \E j \in SyncedLines(sync.cart_after, x[1], LineBefore(x).id) :
    sync.cart_after[x[1]].items[j] = LineBefore(x)

\* C31: when the processing of a cart item raises during sync_cart_stock, the
\* item is counted in errors and stays as it was, every other item of the
\* pass is still processed by the rule of the job, and the changes of the
\* other items are in the cart store after the commit of the pass.
C31_ErrorsDoNotAbort ==
  CountedPass =>
    /\ sync.last.errors = Cardinality(sync.raised)
    /\ \A x \in LinesBefore :
         LET line == LineBefore(x)
             now == SyncedLines(sync.cart_after, x[1], line.id)
             rule == SyncRule(line)
         IN  IF line.id \in sync.raised THEN Untouched(x)
             ELSE /\ rule = "delete" => now = {}
                  /\ rule = "clamp" =>
                       \E j \in now :
                         sync.cart_after[x[1]].items[j] =
                           [line EXCEPT !.quantity = amount[line.product_variation_id]]
                  /\ rule = "keep" => Untouched(x)

\* a pass in which the first item raised, a later item was deleted and
\* another was clamped
C31_Witness ==
  /\ CountedPass
  /\ sync.last.errors = 1 /\ sync.last.deleted = 1 /\ sync.last.updated = 1
  /\ Len(sync.cart_before["u1"].items) = 2
  /\ sync.cart_before["u1"].items[1].id \in sync.raised
  /\ sync.cart_after # sync.cart_before

\* a pass has ended
PassEnded == sync.pc = "idle" /\ sync.passes >= 1

\* C32: sync_cart_stock always ends with a report: when the query for the
\* cart items or the commit fails, the cart store is as it was before the
\* pass and the report is status 'error' with the error message and
\* total_items 0.
C32_FailureRollsBack ==
  PassEnded =>
    /\ sync.last.status \in {"success", "error"}
    /\ sync.last.status = "error" =>
         /\ sync.cart_after = sync.cart_before
         /\ cart = sync.cart_before
         /\ sync.last.total_items = 0
         /\ sync.last.message \in {"query failed", "commit failed"}
         /\ ~sync.last.counted

\* a pass whose commit failed with a delete or a clamp in its session
C32_Witness ==
  /\ PassEnded
  /\ sync.last.status = "error" /\ sync.last.message = "commit failed"
  /\ \E x \in LinesBefore : LineBefore(x).id \notin sync.raised /\ SyncRule(LineBefore(x)) # "keep"
  /\ cart = sync.cart_before

\* the lines the pass started with that are gone after it, and those whose
\* quantity it changed
GoneLines == {x \in LinesBefore : SyncedLines(sync.cart_after, x[1], LineBefore(x).id) = {}}

ClampedLines ==
  {x \in LinesBefore :
     \E j \in SyncedLines(sync.cart_after, x[1], LineBefore(x).id) :
       sync.cart_after[x[1]].items[j].quantity # LineBefore(x).quantity}

\* C33: a successful pass over cart items counts each item in exactly one of
\* updated, deleted, unchanged and errors, so the four add up to total_items,
\* the number of cart items; a pass that finds no cart item reports success
\* with total_items 0 and changes nothing.
C33_CountsAddUp ==
  (PassEnded /\ sync.last.status = "success") =>
    IF AllCartItems(sync.cart_before, Users) = <<>>
      THEN /\ sync.last.total_items = 0
           /\ ~sync.last.counted
           /\ sync.cart_after = sync.cart_before
      ELSE /\ sync.last.counted
           /\ sync.last.total_items = Len(AllCartItems(sync.cart_before, Users))
           /\ sync.last.updated + sync.last.deleted + sync.last.unchanged
                + sync.last.errors = sync.last.total_items
           /\ sync.last.errors = Cardinality(sync.raised)
           /\ sync.last.deleted = Cardinality(GoneLines)
           /\ sync.last.updated = Cardinality(ClampedLines)
           /\ sync.last.unchanged =
                Cardinality({x \in LinesBefore :
                               LineBefore(x).id \notin sync.raised /\ Untouched(x)})

\* a pass that counted an error, a deleted and an unchanged item
C33_Witness ==
  /\ PassEnded /\ sync.last.status = "success"
  /\ sync.last.total_items = 3
  /\ sync.last.errors = 1 /\ sync.last.deleted = 1 /\ sync.last.unchanged = 1

\* the loop consumes or has been stopped
Settled == listener.pc \in {"consuming", "stopped"}

\* C34: the consumer loop is ended by a keyboard interrupt only; after a
\* failed connection or an error while consuming it connects again, declares
\* the exchange, the queue and the binding again and consumes again, so that
\* once the broker stays up the loop consumes, and a message that waits in
\* the queue is consumed.
C34_LoopResumes ==
  /\ [](listener.pc = "stopped" => listener.interrupted)
  /\ [](listener.pc = "consuming" =>
          listener.declared = Len(Durables) /\ listener.conn.state = "open")
  /\ (~Settled) ~> Settled
  /\ \A n \in 1..MaxRuns :
       (Len(queue) = n) ~> (Len(queue) < n \/ listener.pc = "stopped")

\* the loop consumes on a connection it opened after an outage, after an
\* error while consuming, and has consumed a message
C34_Witness ==
  /\ listener.pc = "consuming"
  /\ listener.conn.epoch = broker.epoch /\ broker.epoch > 1
  /\ broker.faults = MaxOutages
  /\ listener.consumed > 0

\* C35 as claimed: a publish made while the broker is up succeeds.
C35_AsClaimed == (publisher.last.called /\ publisher.last.up) => publisher.last.ok

\* C35: basic_publish is only called with the connection and the channel
\* open as far as the publisher knows; a publish made while the broker is up
\* succeeds unless the publisher still holds a connection or a channel the
\* broker has closed since: that publish fails and leaves the publisher
\* connected, and the next publish recreates what is known to be closed.
C35_ReconnectsForNextPublish ==
  publisher.last.called =>
    /\ publisher.last.sent =>
         publisher.last.sent_on = [connection |-> "open", channel |-> "open"]
    /\ (publisher.last.up /\ ~publisher.last.stale) => publisher.last.ok
    /\ (~publisher.last.ok /\ publisher.last.up) => publisher.last.connected

\* the publish after a failed one succeeds on a connection opened after the
\* outage
C35_Witness ==
  /\ publisher.calls = 2
  /\ publisher.last.ok /\ publisher.last.up /\ ~publisher.last.stale
  /\ publisher.conn.epoch > 1
  /\ Len(published) = 1

\* where the cart line k of the run of u is in the validated set, and where
\* in the issues
AsValidated(u, k) ==
  {j \in 1..Len(saga[u].validated_items) :
     saga[u].validated_items[j].variation_id = saga[u].items[k].product_variation_id}

AsIssue(u, k) ==
  {j \in 1..Len(saga[u].stock_issues) :
     saga[u].stock_issues[j].cart_item_id = saga[u].items[k].id}

\* the first n cart lines, and no other, have been classified, each once, and
\* both lists are in cart order
Classified(u, n) ==
  /\ n <= Len(saga[u].items)
  /\ Len(saga[u].validated_items) + Len(saga[u].stock_issues) = n
  /\ \A k \in 1..n :
       /\ Cardinality(AsValidated(u, k)) + Cardinality(AsIssue(u, k)) = 1
       /\ \A j \in AsIssue(u, k) : saga[u].stock_issues[j].action \in {"remove", "update"}
  /\ \A k1 \in 1..n, k2 \in 1..n :
       k1 < k2 =>
         /\ \A j1 \in AsValidated(u, k1), j2 \in AsValidated(u, k2) : j1 < j2
         /\ \A j1 \in AsIssue(u, k1), j2 \in AsIssue(u, k2) : j1 < j2

\* C36: the validation loop takes the cart lines one at a time in cart order;
\* while it is at line i the lines before i are classified, and from the gate
\* on every cart line is classified exactly once, as validated or as one
\* issue with the action remove or update, so validated lines + issues =
\* cart lines.
C36_EveryLineClassifiedOnce ==
  \A u \in Users :
    /\ saga[u].pc = "validate" => Classified(u, saga[u].i - 1)
    /\ saga[u].pc \notin {"idle", "validate"} => Classified(u, Len(saga[u].items))

\* a run at the gate with a validated line and a line with an issue
C36_Witness ==
  /\ saga["u1"].pc = "fix"
  /\ Len(saga["u1"].items) = 2
  /\ Len(saga["u1"].validated_items) = 1 /\ Len(saga["u1"].stock_issues) = 1

\* ------------------------------------------------------------------ C37
\* the ids of the OrderItems an order.item.created event was published for
EventIds(sig) == {sig.events[k].order_item_id : k \in 1..Len(sig.events)}

\* C37: an order.item.created event is published only in the step that creates
\* an OrderItem (the item takes the next id and did not exist before), only
\* when the item has a shop_id and a product_id, and the event describes that
\* item; a step that saves existing items publishes nothing; and no two events
\* carry the same OrderItem id.
C37_PublishedOnceOnCreation ==
  [][/\ \A k, j \in 1..Len(signals'.events) :
          signals'.events[k].order_item_id = signals'.events[j].order_item_id => k = j
     /\ signals'.events # signals.events =>
          /\ Len(signals'.events) = Len(signals.events) + 1
          /\ SubSeq(signals'.events, 1, Len(signals.events)) = signals.events
          /\ nextItemId' = nextItemId + 1
          /\ LET e == signals'.events[Len(signals'.events)]
             IN  /\ e.order_item_id = nextItemId
                 /\ e.order_item_id \notin {it.id : it \in orderItems}
                 /\ e.shop_id # "" /\ e.product_id # ""
                 /\ \E it \in orderItems' :
                      /\ it.id = e.order_item_id /\ it.order = e.order_id
                      /\ it.shop_id = e.shop_id /\ it.product_id = e.product_id
     /\ nextItemId' = nextItemId => signals'.events = signals.events
    ]_vars

\* an event was published for an item that a shop owner has saved since, and
\* another item was created without a shop and has no event
C37_Witness ==
  /\ reply.op = "update_order_item_status" /\ reply.code = 200
  /\ reply.pk \in EventIds(signals)
  /\ \E it \in orderItems : it.shop_id = "" /\ it.id \notin EventIds(signals)

\* ------------------------------------------------------------------ C38
\* C38: every order.item.created event that has been published refers to an
\* OrderItem that is stored; none refers to an item of an order the saga
\* removed by its compensating delete.
C38_EventsReferToItems ==
  \A k \in 1..Len(signals.events) :
    \E it \in orderItems : /\ it.id = signals.events[k].order_item_id
                           /\ it.order = signals.events[k].order_id

\* ------------------------------------------------------------------ C39
\* the payload the last ingestion took in
Ingested == posted[analytics'.taken]

\* the item of the payload was resolved by the product service and its
\* processing did not raise
Resolved(item) ==
  /\ item.product_variation \in ExistingVariations \ analytics'.down
  /\ item.id \notin analytics'.raised

\* C39: when process_order_completed ingests an order, an item whose variation
\* the product service does not resolve, or whose processing raises, is
\* skipped: nothing is written for it, so it has no record unless an earlier
\* ingestion left one; every other item of the payload is recorded, with the
\* product_id of its variation and the shop of that product when the product
\* service returned one; and the Order record is in the store.
C39_SkipsUnresolvedKeepsRest ==
  [][analytics'.taken = analytics.taken + 1 =>
       /\ [order_id |-> Ingested.id, user_id |-> Ingested.user_id] \in analytics'.orders
       /\ \A item \in Ingested.items :
            LET before == {r \in analytics.items : r.id = item.id}
                after == {r \in analytics'.items : r.id = item.id}
            IN  IF Resolved(item)
                  THEN /\ Cardinality(after) = 1
                       /\ \A r \in after :
                            /\ r.order = Ingested.id
                            /\ r.product_variation_id = item.product_variation
                            /\ r.quantity = item.quantity
                            /\ r.product_id = VariationProduct[item.product_variation]
                            /\ r.shop_id \in {ProductShop[r.product_id], ""}
                ELSE /\ after = before
                     /\ analytics.taken = 0 => after = {}
    ]_vars

\* the first ingestion skipped an item whose variation is unknown and
\* recorded another item with its shop and product; the second skipped that
\* item because its processing raised, and its record is as it was
C39_Witness ==
  /\ analytics.taken = 2
  /\ analytics.orders # {}
  /\ \E item \in posted[2].items :
       /\ item.product_variation \notin ExistingVariations
       /\ \A r \in analytics.items : r.id # item.id
  /\ \E item \in posted[2].items :
       /\ item.product_variation \in ExistingVariations
       /\ item.id \in analytics.raised
       /\ \E r \in analytics.items :
            r.id = item.id /\ r.shop_id = "s1" /\ r.product_id = "p1"

====
